---------------------------- MODULE Spec2Model ----------------------------
(***************************************************************************)
(* Model of the DroneCAN node engine of ArduinoDroneCANlib (dronecan.cpp,  *)
(* dronecan.h): the dynamic node-ID allocation client, the parameter       *)
(* server with its EEPROM store, the 1 Hz node status broadcast and the    *)
(* transfer dispatcher, driven by DroneCAN::cycle().                       *)
(*                                                                         *)
(* The CAN transport (libcanard) and the DSDL codecs are not part of the   *)
(* modelled source: a transfer is a decoded record, and tx_queue holds the *)
(* transfers the transport has accepted from canardBroadcast /             *)
(* canardRequestOrRespond and processTx has not drained yet.               *)
(***************************************************************************)
EXTENDS Integers, Sequences, FiniteSets, TLC

(***************************************************************************)
(* Bounds of the model.                                                    *)
(***************************************************************************)
\* number of times the millisecond clock advances in one run
MaxAdvances == 3

(***************************************************************************)
(* 32-bit unsigned arithmetic.  A uint32_t is the pair <<hi, lo>> of its   *)
(* 16-bit halves, so that every value of the millisecond clock and its     *)
(* wrap-around at 2^32 are representable.                                  *)
(***************************************************************************)
Half == 256 * 256

U32(n) == << (n \div Half) % Half, n % Half >>

\* a + n (mod 2^32), a a uint32_t, n a natural number below 2^31
Add32(a, n) ==
    LET lo == a[2] + (n % Half)
        hi == a[1] + (n \div Half) + (lo \div Half)
    IN  << hi % Half, lo % Half >>

\* a - b (mod 2^32), both uint32_t
Sub32(a, b) ==
    LET lo == a[2] - b[2]
        hi == a[1] - b[1] - (IF lo < 0 THEN 1 ELSE 0)
    IN  << hi % Half, lo % Half >>

\* a < b, both uint32_t
Lt32(a, b) == a[1] < b[1] \/ (a[1] = b[1] /\ a[2] < b[2])

(***************************************************************************)
(* IEEE-754 binary32.  A float is [s, e, m]: sign bit, biased exponent     *)
(* (8 bits), mantissa (23 bits).                                           *)
(***************************************************************************)
\* 2^k, 0 <= k <= 30
Pow2(k) == 2^k

\* floor(log2 a), 1 <= a < 2^31
Log2(a) == CHOOSE k \in 0..30 : a \div 2^k = 1

Float(s, e, m) == [s |-> s, e |-> e, m |-> m]

\* __FLT_MIN__, the smallest normal float: the "not found" result of getParameter
FLT_MIN == Float(0, 1, 0)

\* the float read from erased storage (all bytes 0xFF): a NaN
FloatErased == Float(1, 255, 8388607)

\* the float with the sign s, the exponent k and the 24-bit significand q,
\* or 2^24 where rounding has carried into the next exponent
PackFloat(s, k, q) ==
    IF q = Pow2(24) THEN Float(s, k + 128, 0) ELSE Float(s, k + 127, q - Pow2(23))

\* q, rounded up if the remainder r is above half, or is half and q is odd
RoundEven(q, r, half) ==
    IF r > half \/ (r = half /\ q % 2 = 1) THEN q + 1 ELSE q

\* the float nearest to a > 0 whose highest bit set is bit k, with the sign s
NormToFloat(s, a, k) ==
    IF k <= 23
    THEN Float(s, k + 127, (a - Pow2(k)) * Pow2(23 - k))
    ELSE PackFloat(s, k, RoundEven(a \div Pow2(k - 23), a % Pow2(k - 23),
                                   Pow2(k - 24)))

\* (float)i: conversion of an integer to float, round to nearest even
IntToFloat(i) ==
    IF i = 0 THEN Float(0, 0, 0)
    ELSE IF i < 0 THEN NormToFloat(1, 0 - i, Log2(0 - i))
    ELSE NormToFloat(0, i, Log2(i))

\* the integer part of a float f with |f| < 2^31
Truncate(f) ==
    IF f.e < 127 THEN 0
    ELSE LET k   == f.e - 127
             sig == Pow2(23) + f.m
             a   == IF k >= 23 THEN sig * Pow2(k - 23) ELSE sig \div Pow2(23 - k)
         IN  IF f.s = 1 THEN 0 - a ELSE a

(***************************************************************************)
(* 64-bit signed integers.  An int64_t is the tuple of its four 16-bit     *)
(* words in two's complement, the least significant word first.            *)
(***************************************************************************)
\* the int64_t with the value n, for an integer n of the model
I64(n) ==
    << n % Half, (n \div Half) % Half,
       IF n < 0 THEN Half - 1 ELSE 0, IF n < 0 THEN Half - 1 ELSE 0 >>

INT64_MIN == << 0, 0, 0, Half \div 2 >>

INT64_MAX == << Half - 1, Half - 1, Half - 1, Half \div 2 - 1 >>

\* -b (mod 2^64): the complement of every word, plus one
Neg64(b) ==
    LET c1 == Half - b[1]
        c2 == Half - 1 - b[2] + c1 \div Half
        c3 == Half - 1 - b[3] + c2 \div Half
        c4 == Half - 1 - b[4] + c3 \div Half
    IN  << c1 % Half, c2 % Half, c3 % Half, c4 % Half >>

\* a < b, both int64_t
Lt64(a, b) ==
    LET sa == a[4] \div (Half \div 2)
        sb == b[4] \div (Half \div 2)
    IN  IF sa # sb THEN sa = 1
        ELSE \E i \in 1..4 : a[i] < b[i] /\ \A j \in (i + 1)..4 : a[j] = b[j]

\* the number of bits of x, 0 < x < 2^16
BitLen(x) == Log2(x) + 1

\* word i of m, 0 beyond the fourth
Word64(m, i) == IF i \in 1..4 THEN m[i] ELSE 0

\* the position of the highest bit set of m # 0, taken as unsigned
TopBit64(m) ==
    LET t == CHOOSE i \in 1..4 : m[i] # 0 /\ \A j \in (i + 1)..4 : m[j] = 0
    IN  16 * (t - 1) + BitLen(m[t]) - 1

\* m shifted right by a words and r bits, for a result below 2^31
ShiftRight64(m, a, r) ==
    m[a + 1] \div Pow2(r)
      + Word64(m, a + 2) * Pow2(16 - r)
      + (IF Word64(m, a + 3) = 0 THEN 0 ELSE Word64(m, a + 3) * Pow2(32 - r))

\* TRUE iff a bit of m below bit 16 * a + r is set
LowBits64(m, a, r) ==
    \/ \E i \in 1..a : m[i] # 0
    \/ m[a + 1] % Pow2(r) # 0

\* how many bits beyond 30 a number with the highest bit k has
Excess30(k) == IF k > 29 THEN k - 29 ELSE 0

\* x with its lowest bit set if sticky
WithSticky(x, sticky) == IF sticky /\ x % 2 = 0 THEN x + 1 ELSE x

\* f * 2^sh with the sign s
ScaleFloat(f, s, sh) == Float(s, f.e + sh, f.m)

\* the float nearest to the unsigned m # 0, with the sign s: the 30 bits
\* from the highest bit set on and one bit for what lies below them are
\* rounded to the 24 bits of a float, ties to even
Mag64ToFloat(m, s, sh) ==
    ScaleFloat(IntToFloat(WithSticky(ShiftRight64(m, sh \div 16, sh % 16),
                                     LowBits64(m, sh \div 16, sh % 16))),
               s, sh)

\* m if s = 0, -m if s = 1
Sign64(m, s) == IF s = 1 THEN Neg64(m) ELSE m

\* (float)b: conversion of an int64_t to float, round to nearest even
Int64ToFloat(b) ==
    IF b = << 0, 0, 0, 0 >> THEN Float(0, 0, 0)
    ELSE Mag64ToFloat(Sign64(b, b[4] \div (Half \div 2)),
                      b[4] \div (Half \div 2),
                      Excess30(TopBit64(Sign64(b, b[4] \div (Half \div 2)))))

\* word i of sig * 2^(16 * a + r), sig below 2^24
ShiftedWord(sig, a, r, i) ==
    IF i = a + 1 THEN ((sig % Half) * Pow2(r)) % Half
    ELSE IF i = a + 2
    THEN ((sig \div Half) * Pow2(r) + ((sig % Half) * Pow2(r)) \div Half) % Half
    ELSE IF i = a + 3
    THEN ((sig \div Half) * Pow2(r) + ((sig % Half) * Pow2(r)) \div Half) \div Half
    ELSE 0

\* the words of sig * 2^(16 * a + r), sig below 2^24
Words64(sig, a, r) ==
    << ShiftedWord(sig, a, r, 1), ShiftedWord(sig, a, r, 2),
       ShiftedWord(sig, a, r, 3), ShiftedWord(sig, a, r, 4) >>

\* TRUE iff (int64_t)f is defined: f is finite and its integer part is in
\* -2^63 .. 2^63 - 1
FloatToIntDefined(f) == f.e < 127 + 63 \/ f = Float(1, 127 + 63, 0)

\* what the build yields for a float-to-integer cast that C leaves
\* undefined: the "indefinite" integer of the conversion instruction (the
\* minimum; x86-64), or a conversion that saturates and gives 0 for a NaN
\* (the Arm run-time ABI)
UbCastValues == {"indefinite", "saturate"}

\* (int64_t)f: conversion of a float to an int64_t, truncation toward zero.
\* For a NaN, an infinity or a value out of range the conversion is
\* undefined; ub tells what the build produces there.
FloatToInt(f, ub) ==
    IF ~FloatToIntDefined(f)
    THEN IF ub = "indefinite" THEN INT64_MIN
         ELSE IF f.e = 255 /\ f.m # 0 THEN I64(0)
         ELSE IF f.s = 1 THEN INT64_MIN ELSE INT64_MAX
    ELSE IF f.e < 127 THEN I64(0)
    ELSE IF f.e < 127 + 23
    THEN Sign64(Words64((Pow2(23) + f.m) \div Pow2(127 + 23 - f.e), 0, 0), f.s)
    ELSE Sign64(Words64(Pow2(23) + f.m, (f.e - 127 - 23) \div 16,
                        (f.e - 127 - 23) % 16), f.s)

\* the 32 bits of a float as two 16-bit words, the low one first
FloatBits(f) ==
    << f.m % Half, f.s * (Half \div 2) + f.e * 128 + f.m \div Half >>

\* the float with the bits of the first two words of b
BitsFloat(b) ==
    Float(b[2] \div (Half \div 2), (b[2] \div 128) % 256,
          (b[2] % 128) * Half + b[1])

\* the four bytes of a float in memory, least significant first
FloatBytes(f) ==
    << f.m % 256,
       (f.m \div 256) % 256,
       (f.e % 2) * 128 + (f.m \div 65536),
       f.s * 128 + (f.e \div 2) >>

\* the float held by four bytes of memory, least significant first
BytesFloat(b) ==
    Float(b[4] \div 128,
          (b[4] % 128) * 2 + (b[3] \div 128),
          (b[3] % 128) * 65536 + b[2] * 256 + b[1])

(***************************************************************************)
(* Static data: the parameter list, the unique hardware ID, the protocol   *)
(* constants.                                                              *)
(***************************************************************************)
\* enum uavcan_protocol_param_Value_type_t: the tag of a param.Value union
PARAM_VALUE_EMPTY   == "EMPTY"
PARAM_VALUE_INTEGER == "INTEGER_VALUE"
PARAM_VALUE_REAL    == "REAL_VALUE"
PARAM_VALUE_BOOLEAN == "BOOLEAN_VALUE"
PARAM_VALUE_STRING  == "STRING_VALUE"

\* parameter names are byte strings (ASCII codes), compared with strlen/memcmp
NAME_NODEID == << 78, 79, 68, 69, 73, 68 >>
NAME_PARM(k) == << 80, 65, 82, 77, 95, 48 + k >>
\* names that are in no list: same length as PARM_k, and a proper prefix of it
NAME_PARM_9 == NAME_PARM(9)
NAME_PARM_PREFIX == << 80, 65, 82, 77 >>
NAME_EMPTY == << >>

\* the number of entries of custom_parameters
NumCustom == 8

\* { "PARM_k", UAVCAN_PROTOCOL_PARAM_VALUE_REAL_VALUE, 0.0f, 0.0f, 100.0f }
RealParameter(k) ==
    [name |-> NAME_PARM(k), type |-> PARAM_VALUE_REAL,
     value |-> IntToFloat(0), min_value |-> IntToFloat(0),
     max_value |-> IntToFloat(100)]

\* struct parameter {name, type, value, min_value, max_value}: the list an
\* application hands to init(): custom_parameters of main.cpp, NODEID and
\* PARM_1 .. PARM_7.
custom_parameters ==
    << [name |-> NAME_NODEID, type |-> PARAM_VALUE_INTEGER,
        value |-> IntToFloat(127), min_value |-> IntToFloat(0),
        max_value |-> IntToFloat(127)],
       RealParameter(1), RealParameter(2), RealParameter(3), RealParameter(4),
       RealParameter(5), RealParameter(6), RealParameter(7) >>

PREFERRED_NODE_ID == 69

MIN_REQUEST_PERIOD_MS == 600
MAX_FOLLOWUP_DELAY_MS == 400

CANARD_BROADCAST_NODE_ID == 0

\* the three 32-bit words of the MCU's unique device ID
HAL_GetUIDw0 == 3473474
HAL_GetUIDw1 == 909199185
HAL_GetUIDw2 == 540422448

Byte(w, shift) == (w \div Pow2(shift)) % 256

\* DroneCAN::getUniqueID: 12 bytes of the device ID, big-endian per word,
\* zero-padded to 16
getUniqueID ==
    << Byte(HAL_GetUIDw0, 24), Byte(HAL_GetUIDw0, 16), Byte(HAL_GetUIDw0, 8), Byte(HAL_GetUIDw0, 0),
       Byte(HAL_GetUIDw1, 24), Byte(HAL_GetUIDw1, 16), Byte(HAL_GetUIDw1, 8), Byte(HAL_GetUIDw1, 0),
       Byte(HAL_GetUIDw2, 24), Byte(HAL_GetUIDw2, 16), Byte(HAL_GetUIDw2, 8), Byte(HAL_GetUIDw2, 0),
       0, 0, 0, 0 >>

\* memcmp(a, b, n) == 0
MemEq(a, b, n) == SubSeq(a, 1, n) = SubSeq(b, 1, n)

(***************************************************************************)
(* State.                                                                  *)
(***************************************************************************)
VARIABLES
    millis,          \* the millisecond clock, a uint32_t
    advances,        \* how often the clock has advanced (bounded by MaxAdvances)
    pc,              \* position of the main loop inside DroneCAN::cycle()
    looptime,        \* DroneCAN::looptime
    led_state,       \* DroneCAN::led_state
    uptime,          \* DroneCAN::uptime
    node_status,     \* DroneCAN::node_status
    fwupdate,        \* DroneCAN::fwupdate
    canard_node_id,  \* canard.node_id, read by canardGetLocalNodeID
    DNA,             \* DroneCAN::DNA
    parameters,      \* DroneCAN::parameters: the value of each entry
    EEPROM,          \* the persistent store, byte by byte
    tx_queue,        \* transfers handed to the transport, not yet drained
    last,            \* the last handler or API call, its input and its reply
    ub_cast,         \* what the build yields for an undefined float-to-integer cast
    comms,           \* struct app_bootloader_comms at 0x20000000, kept over a reset
    count,           \* handle_begin_firmware_update: drains left in its loop
    bus,             \* the other end of the CAN bus: the allocator and what was sent
    motor_controller_, \* the MotorController object and its functions' statics
    htim1_global,    \* TIM1: the compare values of channels 1 and 2
    main_looptime    \* main.cpp's looptime: when the battery message was last sent

vars == << millis, advances, pc, looptime, led_state, uptime, node_status,
           fwupdate, canard_node_id, DNA, parameters, EEPROM, tx_queue,
           last, ub_cast, comms, count, bus, motor_controller_,
           htim1_global, main_looptime >>

\* parameters.size(): set_parameters copies the whole list handed to init()
NumParams == NumCustom

\* the list handed to init(): main.cpp passes custom_parameters
param_list == custom_parameters

\* the byte addresses of the persistent store used by the parameter list
EepromAddrs == 0 .. (4 * NumParams - 1)

NoRecord == [none |-> TRUE]

\* the bus before anything was sent: the allocator has no reply to send and
\* has seen no request; no request has been sent, none is confirmed, no
\* frame has been handed to the CAN controller and none waits in it
BusIdle ==
    [reply |-> NoRecord, seen |-> << >>, requested |-> FALSE,
     last_request_at |-> << 0, 0 >>, confirmed |-> FALSE, sent |-> << >>,
     rx |-> << >>]

(***************************************************************************)
(* The transport's submit calls.  A submitted transfer records the local   *)
(* node ID at the time of the call, which the transport puts into the      *)
(* frames as their source.  The transport is a library whose code is not   *)
(* among the sources; it is modelled from the specification: a submission  *)
(* is accepted or ends with an error and queues nothing, and a node        *)
(* without a node ID transmits allocation broadcasts only, every other     *)
(* submission is rejected and queues nothing.                              *)
(***************************************************************************)
\* a transport that queues the broadcasts of a node without a node ID
canardBroadcast_unfiltered(queue, local_node_id, data_type, msg, accepted) ==
    IF ~accepted
    THEN queue
    ELSE Append(queue, [transfer_type |-> "Broadcast", data_type |-> data_type,
                        source_node_id |-> local_node_id,
                        destination_node_id |-> CANARD_BROADCAST_NODE_ID,
                        msg |-> msg])

\* canardBroadcast(&canard, signature, data_type_id, ..., payload): the
\* queue afterwards.  accepted is the transport's verdict on the
\* submission: it reports an error and queues nothing when its fixed
\* memory pool has no room for the frames.  A node without a node ID
\* queues nothing but its allocation requests.
canardBroadcast(queue, local_node_id, data_type, msg, accepted) ==
    IF \/ ~accepted
       \/ /\ local_node_id = CANARD_BROADCAST_NODE_ID
          /\ data_type # "dynamic_node_id.Allocation"
    THEN queue
    ELSE Append(queue, [transfer_type |-> "Broadcast", data_type |-> data_type,
                        source_node_id |-> local_node_id,
                        destination_node_id |-> CANARD_BROADCAST_NODE_ID,
                        msg |-> msg])

\* canardRequestOrRespond(&canard, destination, signature, data_type_id, ...,
\*                        CanardResponse, payload)
canardRespond(queue, local_node_id, destination, data_type, msg) ==
    IF local_node_id = CANARD_BROADCAST_NODE_ID
    THEN queue
    ELSE Append(queue, [transfer_type |-> "Response", data_type |-> data_type,
                        source_node_id |-> local_node_id,
                        destination_node_id |-> destination,
                        msg |-> msg])

(***************************************************************************)
(* Parameter storage.  parameters[i] is the value of list entry i (C index *)
(* i-1); name, type, min_value and max_value never change and are read     *)
(* from param_list.  SIZE_MAX, the "no index" value, is written -1.        *)
(***************************************************************************)
SIZE_MAX == 0 - 1

\* EEPROM.put(addr, f): the four bytes of f at addr .. addr+3
EEPROM_put(mem, addr, f) ==
    [mem EXCEPT ![addr]     = FloatBytes(f)[1],
                ![addr + 1] = FloatBytes(f)[2],
                ![addr + 2] = FloatBytes(f)[3],
                ![addr + 3] = FloatBytes(f)[4]]

\* EEPROM.get(addr, f)
EEPROM_get(mem, addr) ==
    BytesFloat(<< mem[addr], mem[addr + 1], mem[addr + 2], mem[addr + 3] >>)

\* the address of the slot of the parameter with C index i
SlotAddr(i) == i * 4

\* a reload that reads every parameter from the first slot
read_parameter_memory_first_slot(mem) ==
    [i \in 1..NumParams |-> EEPROM_get(mem, SlotAddr(0))]

\* DroneCAN::read_parameter_memory
read_parameter_memory(mem) ==
    [i \in 1..NumParams |-> EEPROM_get(mem, SlotAddr(i - 1))]

\* a comparison of the lengths alone
NameMatches_length_only(name, p_name) ==
    Len(name) = Len(p_name)

\* strlen(name) == strlen(p.name) && memcmp(name, p.name, strlen(name)) == 0
NameMatches(name, p_name) ==
    Len(name) = Len(p_name) /\ MemEq(name, p_name, Len(name))

\* the loop over the list, lines 168-178, 319-327, 338-347: the C index of
\* the first entry whose name matches, SIZE_MAX if there is none
FindByName(name) ==
    LET hits == {i \in 1..NumParams : NameMatches(name, param_list[i].name)}
    IN  IF hits = {} THEN SIZE_MAX
        ELSE (CHOOSE i \in hits : \A j \in hits : i <= j) - 1

\* DroneCAN::getParameter
getParameter(values, name) ==
    LET i == FindByName(name)
    IN  IF i # SIZE_MAX THEN values[i + 1] ELSE FLT_MIN

\* DroneCAN::setParameter: the return value
setParameter_ret(name) == IF FindByName(name) # SIZE_MAX THEN 0 ELSE 0 - 1

\* a setParameter that writes the first entry of the list
setParameter_values_first(values, name, value) ==
    IF FindByName(name) # SIZE_MAX THEN [values EXCEPT ![1] = value] ELSE values

\* DroneCAN::setParameter: the values afterwards
setParameter_values(values, name, value) ==
    LET i == FindByName(name)
    IN  IF i # SIZE_MAX THEN [values EXCEPT ![i + 1] = value] ELSE values

(***************************************************************************)
(* handle_param_GetSet.  A request is [name, index, value], value a        *)
(* param.Value union [union_tag, payload]: the payload of an integer value *)
(* is an int64_t, that of a real value a float.                            *)
(***************************************************************************)
\* lines 161-186: which parameter the request means
GetSet_idx(req) ==
    LET by_name == IF Len(req.name) > 0 THEN FindByName(req.name) ELSE SIZE_MAX
    IN  IF by_name = SIZE_MAX /\ req.index < NumParams
        THEN req.index
        ELSE by_name

\* the bytes of an int64_t in memory, least significant first
Int64Bytes(b) ==
    << b[1] % 256, b[1] \div 256, b[2] % 256, b[2] \div 256,
       b[3] % 256, b[3] \div 256, b[4] % 256, b[4] \div 256 >>

\* the bytes the decoder writes to the union of a param.Value, from its
\* first byte on: the eight bytes of integer_value, the four of real_value,
\* the one of boolean_value, the length and the characters of string_value,
\* nothing for an empty value
UnionWritten(value) ==
    IF value.union_tag = PARAM_VALUE_INTEGER THEN Int64Bytes(value.payload)
    ELSE IF value.union_tag = PARAM_VALUE_REAL THEN FloatBytes(value.payload)
    ELSE IF value.union_tag = PARAM_VALUE_BOOLEAN THEN << value.payload >>
    ELSE IF value.union_tag = PARAM_VALUE_STRING
    THEN << Len(value.payload) >> \o value.payload
    ELSE << >>

\* byte k of the union: what the decoder wrote, or what the stack held there
UnionByte(written, junk, k) ==
    IF k <= Len(written) THEN written[k] ELSE junk[k]

\* the first eight bytes of the union as the four words of an int64_t
UnionWords(written, junk) ==
    << UnionByte(written, junk, 1) + 256 * UnionByte(written, junk, 2),
       UnionByte(written, junk, 3) + 256 * UnionByte(written, junk, 4),
       UnionByte(written, junk, 5) + 256 * UnionByte(written, junk, 6),
       UnionByte(written, junk, 7) + 256 * UnionByte(written, junk, 8) >>

\* the first eight bytes of the union of a decoded param.Value, as an int64_t:
\* the decoder writes the active member into a struct that is not
\* initialised, so every byte the active member does not cover holds what
\* the stack held there; junk[k] is what it held at byte k of the union
UnionBits(value, junk) == UnionWords(UnionWritten(value), junk)

\* a stack of zeros, for a transfer whose handler reads no byte of it
NoJunk == [k \in 1..8 |-> 0]

\* req.value.integer_value converted to float: the integer member of the
\* union, whichever member is the active one
Read_integer_value(value, junk) ==
    Int64ToFloat(UnionBits(value, junk))

\* req.value.real_value: the float member of the union, its first four bytes
Read_real_value(value, junk) ==
    BitsFloat(UnionBits(value, junk))

\* lines 190-208: the value of parameter idx after the request; the switch
\* is on the type of the parameter
GetSet_apply(p_type, old, value, junk) ==
    IF p_type = PARAM_VALUE_INTEGER THEN Read_integer_value(value, junk)
    ELSE IF p_type = PARAM_VALUE_REAL THEN Read_real_value(value, junk)
    ELSE old

\* lines 191: a set request that found its parameter
GetSet_is_set(req, idx) ==
    idx # SIZE_MAX /\ req.value.union_tag # PARAM_VALUE_EMPTY

\* lines 190-208: the values after the request
GetSet_values(values, req, idx, junk) ==
    IF GetSet_is_set(req, idx)
    THEN [values EXCEPT ![idx + 1] =
             GetSet_apply(param_list[idx + 1].type, @, req.value, junk)]
    ELSE values

\* lines 195-205: the request writes the persistent store, which the cases
\* of an integer and of a real parameter do
GetSet_stored(req, idx) ==
    /\ GetSet_is_set(req, idx)
    /\ param_list[idx + 1].type \in {PARAM_VALUE_INTEGER, PARAM_VALUE_REAL}

\* lines 212-236: the response for parameter idx with the given values
GetSet_rsp(values, idx, ub) ==
    IF idx # SIZE_MAX
    THEN LET p == param_list[idx + 1]
         IN  [name  |-> p.name,
              value |-> [union_tag |-> p.type,
                         payload   |-> IF p.type = PARAM_VALUE_INTEGER
                                       THEN FloatToInt(values[idx + 1], ub)
                                       ELSE values[idx + 1]]]
    ELSE [name |-> NAME_EMPTY,
          value |-> [union_tag |-> PARAM_VALUE_EMPTY, payload |-> 0]]

\* a handler that takes every payload as decoded
GetSet_malformed_never(transfer) ==
    FALSE

\* lines 153-157: the request does not decode
GetSet_malformed(transfer) ==
    ~transfer.decodable

\* DroneCAN::handle_param_GetSet.  junk is the bytes the stack holds where
\* the request is decoded.
handle_param_GetSet(transfer, junk) ==
    /\ IF GetSet_malformed(transfer)
       THEN \* malformed
            /\ UNCHANGED << parameters, EEPROM, tx_queue >>
            /\ last' = [op |-> "GetSet", req |-> transfer, rsp |-> NoRecord]
       ELSE \E idx \in { GetSet_idx(transfer.msg) } :
            \E values \in { GetSet_values(parameters, transfer.msg, idx, junk) } :
            \E rsp \in { GetSet_rsp(values, idx, ub_cast) } :
                /\ parameters' = values
                /\ EEPROM' = IF GetSet_stored(transfer.msg, idx)
                             THEN EEPROM_put(EEPROM, SlotAddr(idx), values[idx + 1])
                             ELSE EEPROM
                /\ tx_queue' = canardRespond(tx_queue, canard_node_id,
                                             transfer.source_node_id,
                                             "param.GetSet", rsp)
                /\ last' = [op |-> "GetSet", req |-> transfer, rsp |-> rsp]
    /\ UNCHANGED << canard_node_id, DNA, node_status >>

(***************************************************************************)
(* handle_param_ExecuteOpcode.                                             *)
(***************************************************************************)
OPCODE_SAVE  == "SAVE"
OPCODE_ERASE == "ERASE"
OPCODE_OTHER == "OTHER"

\* an ERASE that resets to the maximum
ExecuteOpcode_values_max(values, opcode) ==
    IF opcode = OPCODE_ERASE
    THEN [i \in 1..NumParams |-> param_list[i].max_value]
    ELSE values

\* lines 262-269: the values after the opcode
ExecuteOpcode_values(values, opcode) ==
    IF opcode = OPCODE_ERASE
    THEN [i \in 1..NumParams |-> param_list[i].min_value]
    ELSE values

RECURSIVE SaveAll(_, _, _)
\* lines 273-276: EEPROM.put(i * 4, parameters[i].value) for i = from..size-1
SaveAll(mem, values, from) ==
    IF from >= NumParams THEN mem
    ELSE SaveAll(EEPROM_put(mem, from * 4, values[from + 1]), values, from + 1)

\* a handler that saves whatever the opcode is
ExecuteOpcode_store_any_opcode(mem, values, opcode) ==
    SaveAll(mem, values, 0)

\* lines 270-277: the store after the opcode
ExecuteOpcode_store(mem, values, opcode) ==
    IF opcode = OPCODE_SAVE THEN SaveAll(mem, values, 0) ELSE mem

\* DroneCAN::handle_param_ExecuteOpcode
handle_param_ExecuteOpcode(transfer) ==
    /\ IF ~transfer.decodable
       THEN /\ UNCHANGED << parameters, EEPROM, tx_queue >>
            /\ last' = [op |-> "ExecuteOpcode", req |-> transfer, rsp |-> NoRecord]
       ELSE LET opcode == transfer.msg.opcode
                values == ExecuteOpcode_values(parameters, opcode)
                rsp    == [ok |-> TRUE]
            IN  /\ parameters' = values
                /\ EEPROM' = ExecuteOpcode_store(EEPROM, values, opcode)
                /\ tx_queue' = canardRespond(tx_queue, canard_node_id,
                                             transfer.source_node_id,
                                             "param.ExecuteOpcode", rsp)
                /\ last' = [op |-> "ExecuteOpcode", req |-> transfer, rsp |-> rsp]
    /\ UNCHANGED << canard_node_id, DNA, node_status >>

(***************************************************************************)
(* Dynamic node-ID allocation.  An Allocation message is                   *)
(* [node_id, first_part_of_unique_id, unique_id]; unique_id is the         *)
(* sequence of its unique_id.len bytes.                                    *)
(***************************************************************************)
\* a reschedule without the minimum period
NextRequestAt_no_min_period(now, rnd) ==
    Add32(now, rnd % MAX_FOLLOWUP_DELAY_MS)

\* millis() + MIN_REQUEST_PERIOD_MS + (random() % MAX_FOLLOWUP_DELAY_MS),
\* in uint32_t arithmetic; rnd is the value of random()
NextRequestAt(now, rnd) ==
    Add32(Add32(now, MIN_REQUEST_PERIOD_MS), rnd % MAX_FOLLOWUP_DELAY_MS)

\* lines 385: the received unique ID differs from the local one
UniqueIdMismatch(msg) ==
    ~MemEq(msg.unique_id, getUniqueID, Len(msg.unique_id))

\* canardSetLocalNodeID(&canard, id): takes effect once, for an id in 1..127
canardSetLocalNodeID(current, id) ==
    IF current = CANARD_BROADCAST_NODE_ID /\ id \in 1..127 THEN id ELSE current

\* handle_DNA_Allocation with a mismatch branch that keeps the offset
DNA_Allocation_DNA_keeps_offset(dna, transfer, now, rnd) ==
    LET at == NextRequestAt(now, rnd)
    IN  IF transfer.source_node_id = CANARD_BROADCAST_NODE_ID
        THEN [send_next_node_id_allocation_request_at_ms |-> at,
              node_id_allocation_unique_id_offset |-> 0]
        ELSE IF UniqueIdMismatch(transfer.msg)
        THEN [send_next_node_id_allocation_request_at_ms |-> at,
              node_id_allocation_unique_id_offset |->
                  dna.node_id_allocation_unique_id_offset]
        ELSE IF Len(transfer.msg.unique_id) < 16
        THEN [send_next_node_id_allocation_request_at_ms |->
                  Sub32(at, U32(MIN_REQUEST_PERIOD_MS)),
              node_id_allocation_unique_id_offset |-> Len(transfer.msg.unique_id)]
        ELSE [send_next_node_id_allocation_request_at_ms |-> at,
              node_id_allocation_unique_id_offset |->
                  dna.node_id_allocation_unique_id_offset]

\* a handler that takes every broadcast for an allocator's response
DNA_Allocation_from_allocatee_never(transfer) ==
    FALSE

\* line 368: the broadcast is the request of another node without a node ID
DNA_Allocation_from_allocatee(transfer) ==
    transfer.source_node_id = CANARD_BROADCAST_NODE_ID

\* a stage confirmation that leaves the retry time as line 364 set it
DNA_Allocation_followup_at_unshortened(at) ==
    at

\* line 396: a stage confirmation brings the retry forward by MIN_REQUEST_PERIOD
DNA_Allocation_followup_at(at) ==
    Sub32(at, U32(MIN_REQUEST_PERIOD_MS))

\* DNA after handle_DNA_Allocation, lines 363-408
DNA_Allocation_DNA(dna, transfer, now, rnd) ==
    LET at == NextRequestAt(now, rnd)
    IN  IF DNA_Allocation_from_allocatee(transfer)
        THEN [send_next_node_id_allocation_request_at_ms |-> at,
              node_id_allocation_unique_id_offset |-> 0]
        ELSE IF UniqueIdMismatch(transfer.msg)
        THEN [send_next_node_id_allocation_request_at_ms |-> at,
              node_id_allocation_unique_id_offset |-> 0]
        ELSE IF Len(transfer.msg.unique_id) < 16
        THEN [send_next_node_id_allocation_request_at_ms |->
                  DNA_Allocation_followup_at(at),
              node_id_allocation_unique_id_offset |-> Len(transfer.msg.unique_id)]
        ELSE [send_next_node_id_allocation_request_at_ms |-> at,
              node_id_allocation_unique_id_offset |->
                  dna.node_id_allocation_unique_id_offset]

\* the local node ID after handle_DNA_Allocation, lines 368-407
DNA_Allocation_node_id(current, transfer) ==
    IF /\ ~DNA_Allocation_from_allocatee(transfer)
       /\ ~UniqueIdMismatch(transfer.msg)
       /\ Len(transfer.msg.unique_id) >= 16
    THEN canardSetLocalNodeID(current, transfer.msg.node_id)
    ELSE current

\* a handler without the early return of lines 357-361
DNA_Allocation_ignored_never(local_node_id) ==
    FALSE

\* lines 357-361: the handler does nothing once a node ID is held
DNA_Allocation_ignored(local_node_id) ==
    local_node_id # CANARD_BROADCAST_NODE_ID

\* DroneCAN::handle_DNA_Allocation
handle_DNA_Allocation(transfer, rnd) ==
    /\ IF DNA_Allocation_ignored(canard_node_id)
       THEN UNCHANGED << canard_node_id, DNA >>
       ELSE /\ DNA' = DNA_Allocation_DNA(DNA, transfer, millis, rnd)
            /\ canard_node_id' = DNA_Allocation_node_id(canard_node_id, transfer)
    /\ last' = [op |-> "DNA_Allocation", req |-> transfer, rsp |-> NoRecord]
    /\ UNCHANGED << parameters, EEPROM, node_status, tx_queue >>

\* (uint8_t)f for a float f: defined for a value whose integer part is in
\* 0..255.  Elsewhere the cast is undefined and the build decides: it
\* converts to a 32-bit integer and keeps the low byte, the conversion
\* yielding the signed minimum when out of range ("indefinite"), or
\* saturating to 0 .. 2^32 - 1 with 0 for a NaN ("saturate").
FloatToUint8(f, ub) ==
    IF f.e < 127 THEN 0
    ELSE IF f.e = 255
    THEN IF ub = "saturate" /\ f.m = 0 /\ f.s = 0 THEN 255 ELSE 0
    ELSE IF f.e < 127 + 31
    THEN LET v == Truncate(f)
         IN  IF v \in 0..255 THEN v
             ELSE IF ub = "saturate" /\ v < 0 THEN 0
             ELSE v % 256
    ELSE IF ub = "saturate" /\ f.s = 0 /\ f.e >= 127 + 32 THEN 255 ELSE 0

\* DroneCAN::get_preferred_node_id: the value returned
get_preferred_node_id(values, ub) ==
    LET ret == getParameter(values, NAME_NODEID)
    IN  IF ret = FLT_MIN THEN PREFERRED_NODE_ID ELSE FloatToUint8(ret, ub)

\* a lookup that does not store the default
get_preferred_node_id_values_unchanged(values) ==
    values

\* DroneCAN::get_preferred_node_id: the values afterwards (line 46)
get_preferred_node_id_values(values) ==
    IF getParameter(values, NAME_NODEID) = FLT_MIN
    THEN setParameter_values(values, NAME_NODEID, IntToFloat(PREFERRED_NODE_ID))
    ELSE values

\* lines 452-462: the number of unique-ID bytes a request carries
MaxLenOfUniqueIDInRequest == 6

RequestUidSize(offset) ==
    LET uid_size == (16 - offset) % 256
        capped   == IF uid_size > MaxLenOfUniqueIDInRequest
                    THEN MaxLenOfUniqueIDInRequest ELSE uid_size
    IN  IF capped + offset > 16 THEN 16 - offset ELSE capped

\* a request that sets the first-stage flag whatever the offset is
AllocationRequest_flag_always(values, offset, ub) ==
    [node_id |-> get_preferred_node_id(values, ub) % 128,
     first_part_of_unique_id |-> TRUE,
     unique_id |-> SubSeq(getUniqueID, offset + 1, offset + RequestUidSize(offset))]

\* lines 438-464: the payload of an allocation request, allocation_request[0]
\* followed by the unique-ID bytes from offset on
AllocationRequest(values, offset, ub) ==
    LET pref_node_id == (get_preferred_node_id(values, ub) * 2) % 256
        first        == pref_node_id + (IF offset = 0 THEN 1 ELSE 0)
    IN  [node_id |-> first \div 2,
         first_part_of_unique_id |-> (first % 2 = 1),
         unique_id |-> SubSeq(getUniqueID, offset + 1, offset + RequestUidSize(offset))]

\* request_DNA without the early return of lines 417-420
request_DNA_idle_timer_only(local_node_id, now, dna) ==
    Lt32(now, dna.send_next_node_id_allocation_request_at_ms)

\* lines 417-427: request_DNA returns without doing anything
request_DNA_idle(local_node_id, now, dna) ==
    \/ local_node_id # CANARD_BROADCAST_NODE_ID
    \/ Lt32(now, dna.send_next_node_id_allocation_request_at_ms)

\* DroneCAN::request_DNA.  rnd is the value of random(); accepted tells
\* whether canardBroadcast at line 467 returned without an error.  The
\* result is printed (lines 474-478) and has no other use.
request_DNA(rnd, accepted) ==
    /\ IF request_DNA_idle(canard_node_id, millis, DNA)
       THEN /\ UNCHANGED << DNA, parameters, tx_queue >>
            /\ last' = [op |-> "request_DNA", req |-> NoRecord, rsp |-> NoRecord]
       ELSE /\ parameters' = get_preferred_node_id_values(parameters)
            /\ tx_queue' = canardBroadcast(tx_queue, canard_node_id,
                              "dynamic_node_id.Allocation",
                              AllocationRequest(parameters,
                                  DNA.node_id_allocation_unique_id_offset, ub_cast),
                              accepted)
            /\ DNA' = [send_next_node_id_allocation_request_at_ms |->
                           NextRequestAt(millis, rnd),
                       node_id_allocation_unique_id_offset |-> 0]
            /\ last' = [op |-> "request_DNA",
                        req |-> [offset |-> DNA.node_id_allocation_unique_id_offset],
                        rsp |-> [accepted |-> accepted]]
    /\ UNCHANGED << canard_node_id, EEPROM, node_status >>

(***************************************************************************)
(* Node info and node status.                                              *)
(***************************************************************************)
\* DroneCAN::handle_GetNodeInfo
handle_GetNodeInfo(transfer) ==
    LET status == [node_status EXCEPT !.uptime_sec = uptime]
        rsp    == [status |-> status, unique_id |-> getUniqueID]
    IN  /\ node_status' = status
        /\ tx_queue' = canardRespond(tx_queue, canard_node_id,
                                     transfer.source_node_id, "GetNodeInfo", rsp)
        /\ last' = [op |-> "GetNodeInfo", req |-> transfer, rsp |-> rsp]
        /\ UNCHANGED << canard_node_id, DNA, parameters, EEPROM >>

\* a snapshot that reports the kilobytes read whether or not a read flow
\* is in progress
NodeStatusSnapshot_always_offset(up, fw) ==
    [uptime_sec |-> up,
     health     |-> "OK",
     mode       |-> IF fw.node_id # 0 THEN "SOFTWARE_UPDATE" ELSE "OPERATIONAL",
     sub_mode   |-> 0,
     vendor_specific_status_code |-> (fw.offset \div 1024) % 65536]

\* lines 647-662: the node status snapshot that send_NodeStatus broadcasts
NodeStatusSnapshot(up, fw) ==
    [uptime_sec |-> up,
     health     |-> "OK",
     mode       |-> IF fw.node_id # 0 THEN "SOFTWARE_UPDATE" ELSE "OPERATIONAL",
     sub_mode   |-> 0,
     vendor_specific_status_code |->
         IF fw.node_id # 0 THEN (fw.offset \div 1024) % 65536 ELSE 0]

\* a heartbeat that leaves the uptime counter as it is
send_NodeStatus_no_increment ==
    LET status == NodeStatusSnapshot(uptime, fwupdate)
    IN  /\ node_status' = status
        /\ uptime' = uptime
        /\ tx_queue' = canardBroadcast(tx_queue, canard_node_id, "NodeStatus", status,
                                       TRUE)

\* DroneCAN::send_NodeStatus, called by process1HzTasks
send_NodeStatus ==
    LET status == NodeStatusSnapshot(uptime, fwupdate)
    IN  /\ node_status' = status
        /\ uptime' = uptime + 1
        /\ tx_queue' = canardBroadcast(tx_queue, canard_node_id, "NodeStatus", status,
                                       TRUE)

(***************************************************************************)
(* The motor controller.                                                   *)
(***************************************************************************)
NUM_MOTORS == 2

PWM_MIN == 1000

PWM_MAX == 2000

PWM_NEUTRAL == 1500

ESC_TIMEOUT_MS == 1000

MOTOR_DEBUG_INTERVAL_MS == 5000

\* the range of a uint16_t
Uint16 == 256 * 256

\* the smaller of two numbers
Min(a, b) == IF a < b THEN a ELSE b

\* integer division of C, which truncates towards zero
TruncDiv(a, b) == IF a >= 0 THEN a \div b ELSE -((-a) \div b)

\* map(x, in_min, in_max, out_min, out_max) of the Arduino core
map(x, in_min, in_max, out_min, out_max) ==
    TruncDiv((x - in_min) * (out_max - out_min), in_max - in_min) + out_min

\* constrain(amt, low, high) of the Arduino core
constrain(amt, low, high) ==
    IF amt < low THEN low ELSE IF amt > high THEN high ELSE amt

\* MotorController::rawCommandToPWM: the result of map is stored in a
\* uint16_t before it is constrained
rawCommandToPWM(raw_command) ==
    constrain(map(raw_command, -8192, 8191, PWM_MIN, PWM_MAX) % Uint16,
              PWM_MIN, PWM_MAX)

\* MotorController::isValidMotorIndex
isValidMotorIndex(motor_index) == motor_index < NUM_MOTORS

\* the object after MotorController() and initialize(); last_esc_debug_time
\* and last_pwm_debug are the statics of setMotorCommands and
\* updateMotorOutputs
MotorController ==
    [motors_armed_       |-> FALSE,
     last_command_time_  |-> U32(0),
     last_debug_time_    |-> U32(0),
     motor_pwm_values_   |-> [i \in 1..NUM_MOTORS |-> PWM_NEUTRAL],
     last_esc_debug_time |-> U32(0),
     last_pwm_debug      |-> U32(0)]

\* TIM1 after initialize(): both channels with a pulse of 1500
TIM1_started == << 1500, 1500 >>

\* MotorController::arm
arm(mc, now) ==
    [mc EXCEPT !.motors_armed_ = TRUE, !.last_command_time_ = now]

\* MotorController::disarm
disarm(mc) ==
    [mc EXCEPT !.motors_armed_ = FALSE,
               !.motor_pwm_values_ = [i \in 1..NUM_MOTORS |-> PWM_NEUTRAL]]

\* MotorController::getTimeSinceLastCommand
getTimeSinceLastCommand(mc, now) == Sub32(now, mc.last_command_time_)

\* a controller whose timeout never expires
SafetyTimeout_never(mc, now) == FALSE

\* line 215: the condition of checkSafetyTimeout
SafetyTimeout(mc, now) ==
    /\ mc.motors_armed_
    /\ Lt32(U32(ESC_TIMEOUT_MS), getTimeSinceLastCommand(mc, now))

\* MotorController::checkSafetyTimeout
checkSafetyTimeout(mc, now) ==
    IF SafetyTimeout(mc, now) THEN disarm(mc) ELSE mc

\* line 226: the value written for the motor with C index i - 1
output_pwm(mc, i) ==
    IF mc.motors_armed_ THEN mc.motor_pwm_values_[i] ELSE PWM_NEUTRAL

\* MotorController::updateMotorOutputs, lines 241-248: the compare values of
\* TIM1; the motors with C index 0 and 1 have a channel
updateMotorOutputs(mc, tim) ==
    [ch \in 1..2 |-> IF ch <= NUM_MOTORS THEN output_pwm(mc, ch) ELSE tim[ch]]

\* a time stamp of the debug output: set to now when interval has passed
DebugStamp(stamp, now, interval) ==
    IF Lt32(Sub32(now, stamp), U32(interval)) THEN stamp ELSE now

\* MotorController::setMotorCommands; raw_commands is NoRecord for a null
\* pointer, or holds the num_commands values
setMotorCommands(mc, raw_commands, now) ==
    IF raw_commands = NoRecord THEN mc
    ELSE LET motors_to_update == Min(Len(raw_commands.data), NUM_MOTORS)
             set == [mc EXCEPT
                       !.last_esc_debug_time = DebugStamp(@, now, 1000),
                       !.motor_pwm_values_ =
                           [i \in 1..NUM_MOTORS |->
                               IF i <= motors_to_update
                               THEN rawCommandToPWM(raw_commands.data[i])
                               ELSE @[i]],
                       !.last_command_time_ = now]
         IN  IF ~set.motors_armed_ THEN arm(set, now) ELSE set

\* MotorController::setMotorPWM
setMotorPWM(mc, motor_index, pwm_value, now) ==
    IF ~isValidMotorIndex(motor_index) THEN mc
    ELSE [mc EXCEPT
            !.motor_pwm_values_[motor_index + 1] =
                constrain(pwm_value, PWM_MIN, PWM_MAX),
            !.last_command_time_ = now]

(***************************************************************************)
(* Start-up and restart.                                                   *)
(***************************************************************************)
\* DroneCAN::node_id, the statically configured node ID (0: use DNA)
node_id == 0

\* APP_BOOTLOADER_COMMS_MAGIC, 0xc544ad9a, as a uint32_t
APP_BOOTLOADER_COMMS_MAGIC == << 50500, 44442 >>

\* struct app_bootloader_comms with every byte zero
CommsZero == [magic |-> U32(0), server_node_id |-> 0, my_node_id |-> 0,
              path |-> << >>]

\* an init that keeps the values of the list given to set_parameters
init_parameters_not_reloaded(mem) ==
    [i \in 1..NumParams |-> param_list[i].value]

\* DroneCAN::init, lines 30-34: set_parameters(param_list), then
\* read_parameter_memory()
init_parameters(mem) == read_parameter_memory(mem)

\* the state DroneCAN::init leaves behind, with the clock at t and the
\* persistent store mem
InitWith(t, mem) ==
    /\ millis = t
    /\ pc = "cycle"
    /\ looptime = U32(0)
    /\ led_state = FALSE
    /\ uptime = 0
    /\ node_status = [uptime_sec |-> 0, health |-> "OK", mode |-> "OPERATIONAL",
                      sub_mode |-> 0, vendor_specific_status_code |-> 0]
    /\ fwupdate = [node_id |-> 0, transfer_id |-> 0, last_read_ms |-> U32(0),
                   offset |-> 0]
    /\ canard_node_id = canardSetLocalNodeID(CANARD_BROADCAST_NODE_ID, node_id)
    /\ DNA = [send_next_node_id_allocation_request_at_ms |-> U32(0),
              node_id_allocation_unique_id_offset |-> 0]
    /\ parameters = init_parameters(mem)
    /\ EEPROM = mem
    /\ tx_queue = << >>

\* the persistent store of a device never written to: every byte 0xFF
ErasedStore == [a \in EepromAddrs |-> 255]

\* the persistent store after an earlier run saved the list's initial values
SavedStore == SaveAll(ErasedStore, [i \in 1..NumParams |-> param_list[i].value], 0)

\* NVIC_SystemReset() followed by setup(): the RAM state is initialised
\* again, the clock starts again, the persistent store is kept
RebootAfter(op, req) ==
    /\ millis' = U32(0)
    /\ pc' = "cycle"
    /\ looptime' = U32(0)
    /\ led_state' = FALSE
    /\ uptime' = 0
    /\ node_status' = [uptime_sec |-> 0, health |-> "OK", mode |-> "OPERATIONAL",
                       sub_mode |-> 0, vendor_specific_status_code |-> 0]
    /\ fwupdate' = [node_id |-> 0, transfer_id |-> 0, last_read_ms |-> U32(0),
                    offset |-> 0]
    /\ canard_node_id' = canardSetLocalNodeID(CANARD_BROADCAST_NODE_ID, node_id)
    /\ DNA' = [send_next_node_id_allocation_request_at_ms |-> U32(0),
               node_id_allocation_unique_id_offset |-> 0]
    /\ parameters' = init_parameters(EEPROM)
    /\ tx_queue' = << >>
    /\ last' = [op |-> "restart",
                req |-> [after_op |-> op, after_req |-> req],
                rsp |-> NoRecord]
    /\ motor_controller_' = MotorController
    /\ htim1_global' = TIM1_started
    /\ main_looptime' = U32(0)
    /\ UNCHANGED << EEPROM, advances, ub_cast, comms, count, bus >>

\* a restart; last records the handler or call that ran before it
Reboot ==
    RebootAfter(last.op, IF last.op = "ExecuteOpcode" THEN last.req ELSE NoRecord)

(***************************************************************************)
(* The transfer dispatcher and the main loop.                              *)
(***************************************************************************)
\* DroneCANshoudlAcceptTransfer: whether the transport reassembles a
\* transfer of this type and hands it to the dispatcher
DroneCANshoudlAcceptTransfer(data_type_id, transfer_type) ==
    \/ /\ transfer_type = "Request"
       /\ data_type_id \in {"GetNodeInfo", "param.GetSet", "param.ExecuteOpcode",
                            "file.BeginFirmwareUpdate", "file.Read",
                            "RestartNode"}
    \/ /\ transfer_type = "Response"
       /\ data_type_id \in {"file.Read", "param.GetSet"}
    \/ /\ transfer_type = "Broadcast"
       /\ data_type_id \in {"dynamic_node_id.Allocation", "debug.LogMessage",
                            "debug.KeyValue"}

\* the transfers of a set that reach the dispatcher
Accepted(transfers) ==
    { t \in transfers :
          DroneCANshoudlAcceptTransfer(t.data_type, t.transfer_type) }

\* the time DroneCANonTransferReceived waits before it resets, line 778
RESTART_DELAY_MS == 200

\* the rounds of the loop of line 551: uint8_t count = 50; while (count--)
BFU_DRAIN_COUNT == 50

\* lines 513-516: the record is zeroed unless it carries the magic
begin_firmware_update_magic(c) ==
    IF c.magic # APP_BOOTLOADER_COMMS_MAGIC
    THEN [CommsZero EXCEPT !.magic = APP_BOOTLOADER_COMMS_MAGIC]
    ELSE c

\* the node ID of the request taken as it is
begin_firmware_update_server_no_fallback(req, transfer) ==
    req.source_node_id

\* lines 524-528: the node to fetch the image from
begin_firmware_update_server(req, transfer) ==
    IF req.source_node_id = 0 THEN transfer.source_node_id
    ELSE req.source_node_id

\* line 529: memcpy(comms->path, path.data, path.len) overwrites the first
\* path.len bytes and keeps what follows them
begin_firmware_update_path(old, path) ==
    path \o SubSeq(old, Len(path) + 1, Len(old))

\* lines 511-530: the record after a request that decodes
begin_firmware_update_comms(c, transfer, local_node_id) ==
    LET z == begin_firmware_update_magic(c)
    IN  [magic          |-> z.magic,
         server_node_id |-> begin_firmware_update_server(transfer.msg, transfer),
         my_node_id     |-> local_node_id,
         path           |-> begin_firmware_update_path(z.path, transfer.msg.path)]

\* DroneCANonTransferReceived, lines 761-777: a RestartNode request; the
\* response is broadcast, the delay and the reset follow
RestartNode_respond(transfer) ==
    /\ tx_queue' = canardBroadcast(tx_queue, canard_node_id, "RestartNode",
                                   [ok |-> TRUE], TRUE)
    /\ last' = [op |-> "RestartNode", req |-> transfer, rsp |-> [ok |-> TRUE]]
    /\ pc' = "restart_delay"
    /\ UNCHANGED << canard_node_id, DNA, parameters, EEPROM, node_status, comms >>

\* handle_begin_firmware_update up to line 530: the record; a request that
\* does not decode ends the handler at line 521
handle_begin_firmware_update(transfer) ==
    /\ last' = [op |-> "BeginFirmwareUpdate", req |-> transfer, rsp |-> NoRecord]
    /\ IF ~transfer.decodable
       THEN /\ comms' = begin_firmware_update_magic(comms)
            /\ pc' = "processTx"
       ELSE /\ comms' = begin_firmware_update_comms(comms, transfer,
                                                    canard_node_id)
            /\ pc' = "bfu_respond"
    /\ UNCHANGED << canard_node_id, DNA, parameters, EEPROM, node_status,
                    tx_queue >>

\* DroneCANonTransferReceived: the handler a transfer is routed to, the
\* allocation broadcast and the five requests of the two switches; any
\* other transfer has no case and is dropped.  A handler that returns
\* leaves processRx, and processTx is next.
Dispatch(transfer, rnd, junk) ==
    IF transfer.transfer_type = "Broadcast"
       /\ transfer.data_type = "dynamic_node_id.Allocation"
    THEN /\ handle_DNA_Allocation(transfer, rnd)
         /\ pc' = "processTx"
         /\ UNCHANGED comms
    ELSE IF transfer.transfer_type = "Request" /\ transfer.data_type = "GetNodeInfo"
    THEN /\ handle_GetNodeInfo(transfer)
         /\ pc' = "processTx"
         /\ UNCHANGED comms
    ELSE IF transfer.transfer_type = "Request" /\ transfer.data_type = "RestartNode"
    THEN RestartNode_respond(transfer)
    ELSE IF transfer.transfer_type = "Request" /\ transfer.data_type = "param.GetSet"
    THEN /\ handle_param_GetSet(transfer, junk)
         /\ pc' = "processTx"
         /\ UNCHANGED comms
    ELSE IF transfer.transfer_type = "Request"
            /\ transfer.data_type = "param.ExecuteOpcode"
    THEN /\ handle_param_ExecuteOpcode(transfer)
         /\ pc' = "processTx"
         /\ UNCHANGED comms
    ELSE IF transfer.transfer_type = "Request"
            /\ transfer.data_type = "file.BeginFirmwareUpdate"
    THEN handle_begin_firmware_update(transfer)
    ELSE /\ last' = [op |-> "dropped", req |-> transfer, rsp |-> NoRecord]
         /\ pc' = "processTx"
         /\ UNCHANGED << canard_node_id, DNA, parameters, EEPROM, node_status,
                         tx_queue, comms >>

\* the node ID of the allocator, and of the tool that sends requests
ALLOCATOR_NODE_ID == 125

\* what random() yields, reduced modulo MAX_FOLLOWUP_DELAY_MS by the code
RandomValues == {0, 399}

\* how far the clock moves between two rounds of the main loop
ClockSteps == {400, 1001}

\* the unique ID of a message: the first n bytes of the local one
UidPrefix(n) == SubSeq(getUniqueID, 1, n)

\* the same with byte k changed
UidCorrupt(n, k) == [UidPrefix(n) EXCEPT ![k] = (@ + 1) % 256]

AllocationTransfer(src, uid, nid) ==
    [transfer_type |-> "Broadcast", data_type |-> "dynamic_node_id.Allocation",
     source_node_id |-> src, decodable |-> TRUE,
     msg |-> [node_id |-> nid, first_part_of_unique_id |-> FALSE, unique_id |-> uid]]

\* allocation broadcasts seen on the bus: allocator responses that confirm
\* 6, 12 and all 16 bytes (with node ID 7, 9 or none), responses meant for
\* another node, and broadcasts of other allocatees (source node 0), one of
\* them with all 16 local bytes and a node ID
AllocationTransfers ==
    { AllocationTransfer(ALLOCATOR_NODE_ID, UidPrefix(6), 0),
      AllocationTransfer(ALLOCATOR_NODE_ID, UidPrefix(12), 0),
      AllocationTransfer(ALLOCATOR_NODE_ID, UidPrefix(16), 7),
      AllocationTransfer(ALLOCATOR_NODE_ID, UidPrefix(16), 9),
      AllocationTransfer(ALLOCATOR_NODE_ID, UidPrefix(16), 0),
      AllocationTransfer(ALLOCATOR_NODE_ID, UidCorrupt(6, 6), 0),
      AllocationTransfer(ALLOCATOR_NODE_ID, UidCorrupt(16, 1), 9),
      AllocationTransfer(CANARD_BROADCAST_NODE_ID, UidPrefix(6), 7),
      AllocationTransfer(CANARD_BROADCAST_NODE_ID, UidPrefix(16), 7),
      AllocationTransfer(CANARD_BROADCAST_NODE_ID, UidCorrupt(6, 2), 0) }

GetSetTransfer(name, index, tag, payload) ==
    [transfer_type |-> "Request", data_type |-> "param.GetSet",
     source_node_id |-> ALLOCATOR_NODE_ID, decodable |-> TRUE,
     msg |-> [name |-> name, index |-> index,
              value |-> [union_tag |-> tag, payload |-> payload]]]

ExecuteOpcodeTransfer(opcode) ==
    [transfer_type |-> "Request", data_type |-> "param.ExecuteOpcode",
     source_node_id |-> ALLOCATOR_NODE_ID, decodable |-> TRUE,
     msg |-> [opcode |-> opcode]]

GetNodeInfoTransfer ==
    [transfer_type |-> "Request", data_type |-> "GetNodeInfo",
     source_node_id |-> ALLOCATOR_NODE_ID, decodable |-> TRUE, msg |-> NoRecord]

BeginFirmwareUpdateTransfer(src, dec, server, path) ==
    [transfer_type |-> "Request", data_type |-> "file.BeginFirmwareUpdate",
     source_node_id |-> src, decodable |-> dec,
     msg |-> [source_node_id |-> server, path |-> path]]

\* begin-update requests: one that does not decode, one that names no
\* server, one that names a server other than the requester; paths of
\* length one and two
BeginFirmwareUpdateTransfers ==
    { BeginFirmwareUpdateTransfer(ALLOCATOR_NODE_ID, FALSE, 0, << >>),
      BeginFirmwareUpdateTransfer(ALLOCATOR_NODE_ID, TRUE, 0, << 97 >>),
      BeginFirmwareUpdateTransfer(ALLOCATOR_NODE_ID, TRUE, 9, << 98, 99 >>) }

RestartNodeTransfer ==
    [transfer_type |-> "Request", data_type |-> "RestartNode",
     source_node_id |-> ALLOCATOR_NODE_ID, decodable |-> TRUE, msg |-> NoRecord]

\* a broadcast the acceptance filter lets through and no handler takes
LogMessageTransfer ==
    [transfer_type |-> "Broadcast", data_type |-> "debug.LogMessage",
     source_node_id |-> ALLOCATOR_NODE_ID, decodable |-> TRUE, msg |-> NoRecord]

\* the transfers the engine receives in specification Spec
EngineTransfers ==
    AllocationTransfers
    \cup { GetNodeInfoTransfer, LogMessageTransfer,
           GetSetTransfer(NAME_EMPTY, 0, PARAM_VALUE_EMPTY, 0),
           ExecuteOpcodeTransfer(OPCODE_SAVE) }

\* the clock moves on while the main loop is between two calls of cycle()
AdvanceClock ==
    /\ pc = "cycle"
    /\ advances < MaxAdvances
    /\ \E d \in ClockSteps : millis' = Add32(millis, d)
    /\ advances' = advances + 1
    /\ UNCHANGED << pc, looptime, led_state, uptime, node_status, fwupdate,
                    canard_node_id, DNA, parameters, EEPROM, tx_queue, last,
                    ub_cast, comms, count,
                    bus,
                    motor_controller_, htim1_global, main_looptime >>

\* lines 62: the 1 Hz tasks are due
OneHzDue(now, lt) == Lt32(U32(1000), Sub32(now, lt))

\* DroneCAN::cycle, lines 60-68: the 1 Hz tasks
Cycle1Hz ==
    /\ pc = "cycle"
    /\ pc' = "processRx"
    /\ IF OneHzDue(millis, looptime)
       THEN /\ looptime' = millis
            /\ send_NodeStatus
            /\ led_state' = ~led_state
       ELSE UNCHANGED << looptime, node_status, uptime, tx_queue, led_state >>
    /\ UNCHANGED << millis, advances, fwupdate, canard_node_id, DNA, parameters,
                    EEPROM, last, ub_cast, comms, count,
                    bus,
                    motor_controller_, htim1_global, main_looptime >>

\* DroneCAN::processRx with a frame that completes a transfer: the transport
\* calls the dispatcher
ProcessRxTransfer ==
    /\ pc = "processRx"
    /\ \E transfer \in Accepted(EngineTransfers), rnd \in RandomValues :
           Dispatch(transfer, rnd, NoJunk)
    /\ UNCHANGED << millis, advances, looptime, led_state, uptime, fwupdate, ub_cast, count,
                    bus,
                    motor_controller_, htim1_global, main_looptime >>

\* DroneCAN::processRx with no frame, or a frame that completes no transfer
ProcessRxNone ==
    /\ pc = "processRx"
    /\ pc' = "processTx"
    /\ last' = [op |-> "processRx", req |-> NoRecord, rsp |-> NoRecord]
    /\ UNCHANGED << millis, advances, looptime, led_state, uptime, node_status,
                    fwupdate, canard_node_id, DNA, parameters, EEPROM, tx_queue,
                    ub_cast, comms, count,
                    bus,
                    motor_controller_, htim1_global, main_looptime >>

\* DroneCAN::processTx: every queued frame is sent and popped
ProcessTx ==
    /\ pc = "processTx"
    /\ pc' = "request_DNA"
    /\ tx_queue' = << >>
    /\ UNCHANGED << millis, advances, looptime, led_state, uptime, node_status,
                    fwupdate, canard_node_id, DNA, parameters, EEPROM, last,
                    ub_cast, comms, count,
                    bus,
                    motor_controller_, htim1_global, main_looptime >>

\* DroneCAN::cycle, line 72: the DNA client's tick
RequestDNA ==
    /\ pc = "request_DNA"
    /\ pc' = "cycle"
    /\ \E rnd \in RandomValues, accepted \in BOOLEAN :
           request_DNA(rnd, accepted)
    /\ UNCHANGED << millis, advances, looptime, led_state, uptime, fwupdate,
                    ub_cast, comms, count, bus,
                    motor_controller_, htim1_global, main_looptime >>

\* how many transfers the queue holds at most when the application submits
\* one more
MaxQueued == 1

\* the period of the battery message of main.cpp, line 107
BATTERY_PERIOD_MS == 100

\* main.cpp, line 107: the battery message is due
BatteryDue(now, lt) == Lt32(U32(BATTERY_PERIOD_MS), Sub32(now, lt))

\* main.cpp, lines 104-132: the body of the main loop before cycle(); the
\* battery message is broadcast at 10 Hz
MainLoopBattery ==
    /\ pc = "cycle"
    /\ Len(tx_queue) < MaxQueued
    /\ BatteryDue(millis, main_looptime)
    /\ main_looptime' = millis
    /\ tx_queue' = canardBroadcast(tx_queue, canard_node_id,
                                   "power.BatteryInfo", NoRecord, TRUE)
    /\ last' = [op |-> "BatteryInfo", req |-> NoRecord, rsp |-> NoRecord]
    /\ UNCHANGED << millis, advances, pc, looptime, led_state, uptime, node_status,
                    fwupdate, canard_node_id, DNA, parameters, EEPROM,
                    ub_cast, comms, count, bus,
                    motor_controller_, htim1_global >>

\* the texts and levels the application logs
DebugMessages == { [msg |-> << 104, 105 >>, level |-> 0] }

\* the application calls DroneCAN::debug(msg, level)
Debug ==
    /\ pc = "cycle"
    /\ Len(tx_queue) < MaxQueued
    /\ \E m \in DebugMessages :
           /\ tx_queue' = canardBroadcast(tx_queue, canard_node_id,
                                          "debug.LogMessage",
                                          [level |-> m.level, text |-> m.msg],
                                          TRUE)
           /\ last' = [op |-> "debug", req |-> m, rsp |-> NoRecord]
    /\ UNCHANGED << millis, advances, pc, looptime, led_state, uptime, node_status,
                    fwupdate, canard_node_id, DNA, parameters, EEPROM,
                    ub_cast, comms, count, bus,
                    motor_controller_, htim1_global, main_looptime >>

Init ==
    /\ motor_controller_ = MotorController
    /\ htim1_global = TIM1_started
    /\ main_looptime = U32(0)
    /\ bus = BusIdle
    /\ \E mem \in {ErasedStore, SavedStore} : InitWith(U32(0), mem)
    /\ advances = 0
    /\ last = [op |-> "init", req |-> NoRecord, rsp |-> NoRecord]
    /\ ub_cast \in UbCastValues
    /\ comms = CommsZero
    /\ count = 0

Next ==
    \/ AdvanceClock
    \/ Debug
    \/ Cycle1Hz
    \/ ProcessRxTransfer
    \/ ProcessRxNone
    \/ ProcessTx
    \/ RequestDNA

Spec == Init /\ [][Next]_vars

(***************************************************************************)
(* Properties of the DNA client and of what the engine transmits.          *)
(***************************************************************************)
\* the transfers a step appends to the transmit queue
NewTransfers ==
    IF Len(tx_queue') > Len(tx_queue)
    THEN {tx_queue'[k] : k \in (Len(tx_queue) + 1)..Len(tx_queue')}
    ELSE {}

\* the transfer just handled is an allocator response
IsAllocatorResponse(rec) ==
    /\ rec.op = "DNA_Allocation"
    /\ rec.req.source_node_id # CANARD_BROADCAST_NODE_ID

\* C1: once the node ID is non-zero, a tick of request_DNA changes nothing
\* and no step queues an allocation request; and the step that makes the
\* node ID non-zero handles an allocator response that carries all 16 bytes
\* of the local unique ID, and the new node ID is that response's node_id.
C1_AllocatedStopsRequests ==
    [][ /\ (canard_node_id # 0 /\ pc = "request_DNA")
              => UNCHANGED << DNA, parameters, tx_queue >>
        /\ canard_node_id # 0
              => \A t \in NewTransfers : t.data_type # "dynamic_node_id.Allocation"
        /\ (canard_node_id = 0 /\ canard_node_id' # 0)
              => /\ pc = "processRx"
                 /\ IsAllocatorResponse(last')
                 /\ last'.req.msg.unique_id = getUniqueID
                 /\ canard_node_id' = last'.req.msg.node_id ]_vars

\* an allocated node has run a tick at a time its request timer had expired
C1_Witness ==
    /\ canard_node_id = 7
    /\ last.op = "request_DNA"
    /\ ~Lt32(millis, DNA.send_next_node_id_allocation_request_at_ms)

\* C2: handling an allocator response whose unique-ID bytes differ from the
\* local unique ID never changes the node ID, and in an unallocated node it
\* leaves the unique-ID offset 0, whatever the offset was.
C2_MismatchResets ==
    [][ (/\ pc = "processRx"
         /\ IsAllocatorResponse(last')
         /\ UniqueIdMismatch(last'.req.msg))
            => /\ canard_node_id' = canard_node_id
               /\ canard_node_id = 0
                     => DNA'.node_id_allocation_unique_id_offset = 0
               /\ canard_node_id # 0 => DNA' = DNA ]_vars

\* an unallocated node has handled an allocator response of 16 bytes that
\* differs from the local unique ID
C2_Witness ==
    /\ pc = "processTx"
    /\ IsAllocatorResponse(last)
    /\ UniqueIdMismatch(last.req.msg)
    /\ Len(last.req.msg.unique_id) = 16
    /\ canard_node_id = 0
    /\ DNA.node_id_allocation_unique_id_offset = 0

\* C3: the node ID is in 0..127, and once it is non-zero no step changes it
\* or the allocation session state.
C3_NodeIdentityStable ==
    [][ /\ canard_node_id \in 0..127
        /\ canard_node_id' \in 0..127
        /\ canard_node_id # 0
              => /\ canard_node_id' = canard_node_id
                 /\ DNA' = DNA ]_vars

\* a node allocated as 7 has handled a full matching response that carries 9
C3_Witness ==
    /\ canard_node_id = 7
    /\ IsAllocatorResponse(last)
    /\ last.req.msg.unique_id = getUniqueID
    /\ last.req.msg.node_id = 9

\* C4: every transfer queued for transmission while the node ID is 0 is an
\* allocation request broadcast: no node status, no GetNodeInfo response
\* and no parameter response is queued by an unallocated node.
C4_OnlyDnaWhileUnallocated ==
    \A k \in 1..Len(tx_queue) :
        tx_queue[k].source_node_id = CANARD_BROADCAST_NODE_ID
            => /\ tx_queue[k].transfer_type = "Broadcast"
               /\ tx_queue[k].data_type = "dynamic_node_id.Allocation"

\* an unallocated node whose 1 Hz tasks have run has handled a GetNodeInfo
\* request, and nothing is queued
C4_Witness ==
    /\ canard_node_id = CANARD_BROADCAST_NODE_ID
    /\ uptime > 0
    /\ pc = "processTx"
    /\ last.op = "GetNodeInfo"
    /\ tx_queue = << >>

(***************************************************************************)
(* The parameter server on its own: parameter requests, the application's  *)
(* calls of setParameter and getParameter, and restarts.                   *)
(***************************************************************************)
\* values of GetSet set requests: an integer, an integer that no float
\* holds exactly (2^24 + 1), a real
SetValues ==
    { [union_tag |-> PARAM_VALUE_EMPTY, payload |-> 0],
      [union_tag |-> PARAM_VALUE_INTEGER, payload |-> I64(42)],
      [union_tag |-> PARAM_VALUE_REAL, payload |-> IntToFloat(5)] }

\* the transfers the node receives in specification SpecParam: the allocator
\* response that gives it a node ID, the three opcodes, and GetSet
\* requests: by index (empty name), one index past the end of the list
\* included; by name, with an index field that points elsewhere; with a
\* name that is in no list
ParamTransfers ==
    { GetSetTransfer(NAME_EMPTY, i, v.union_tag, v.payload) :
          i \in {0, 1, NumCustom}, v \in SetValues }
    \cup { GetSetTransfer(NAME_NODEID, 1, v.union_tag, v.payload) : v \in SetValues }
    \cup { GetSetTransfer(NAME_PARM(1), NumCustom, v.union_tag, v.payload) :
               v \in SetValues }
    \cup { GetSetTransfer(NAME_PARM_9, i, v.union_tag, v.payload) :
               i \in {0, NumCustom}, v \in SetValues }
    \cup { GetSetTransfer(NAME_NODEID, 0, PARAM_VALUE_INTEGER, I64(16777217)) }
    \cup { ExecuteOpcodeTransfer(o) : o \in {OPCODE_SAVE, OPCODE_ERASE, OPCODE_OTHER} }
    \cup { AllocationTransfer(ALLOCATOR_NODE_ID, UidPrefix(16), 7) }

\* lines 194-203: how many bytes of the union the handler reads for a
\* parameter of type p_type, the eight of integer_value or the four of
\* real_value
UnionRead(p_type) ==
    IF p_type = PARAM_VALUE_INTEGER THEN 8
    ELSE IF p_type = PARAM_VALUE_REAL THEN 4
    ELSE 0

\* the handler reads bytes of the union that the decoder has not written:
\* the request sets a parameter whose member is longer than the member the
\* request carries (a real for the Integer parameter NODEID)
ReadsJunk(transfer) ==
    /\ transfer.data_type = "param.GetSet"
    /\ transfer.decodable
    /\ GetSet_is_set(transfer.msg, GetSet_idx(transfer.msg))
    /\ Len(UnionWritten(transfer.msg.value))
           < UnionRead(param_list[GetSet_idx(transfer.msg) + 1].type)

\* those of them that reach the dispatcher and whose handling reads written
\* bytes only.  What a request that makes the handler read the unwritten
\* bytes of the union stores is any of the values UnionBits yields for the
\* 2^32 contents of those bytes; such requests are not among the inputs of
\* the specification.
ParamRequests == { t \in Accepted(ParamTransfers) : ~ReadsJunk(t) }

\* DroneCAN::cycle, line 70: processRx with a frame that completes a
\* transfer; the DNA client and the 1 Hz tasks are left out
ServeRequest ==
    /\ pc = "cycle"
    /\ \E transfer \in ParamRequests : Dispatch(transfer, 0, NoJunk)
    /\ UNCHANGED << millis, advances, looptime, led_state, uptime, fwupdate,
                    ub_cast, count, bus,
                    motor_controller_, htim1_global, main_looptime >>

\* DroneCAN::cycle, line 71: processTx sends what is queued
SendResponse ==
    /\ pc = "processTx"
    /\ pc' = "cycle"
    /\ tx_queue' = << >>
    /\ UNCHANGED << millis, advances, looptime, led_state, uptime, node_status,
                    fwupdate, canard_node_id, DNA, parameters, EEPROM, last,
                    ub_cast, comms, count,
                    bus,
                    motor_controller_, htim1_global, main_looptime >>

LocalNames == {NAME_PARM(1), NAME_PARM_9, NAME_PARM_PREFIX}

LocalValues == {IntToFloat(69)}

\* the application calls setParameter(name, value)
LocalSet ==
    /\ pc = "cycle"
    /\ \E name \in LocalNames, value \in LocalValues :
           /\ parameters' = setParameter_values(parameters, name, value)
           /\ last' = [op |-> "setParameter",
                       req |-> [name |-> name, value |-> value],
                       rsp |-> [ret |-> setParameter_ret(name)]]
    /\ UNCHANGED << millis, advances, pc, looptime, led_state, uptime, node_status,
                    fwupdate, canard_node_id, DNA, EEPROM, tx_queue, ub_cast, comms, count,
                    bus,
                    motor_controller_, htim1_global, main_looptime >>

\* the application calls getParameter(name)
LocalGet ==
    /\ pc = "cycle"
    /\ \E name \in LocalNames :
           last' = [op |-> "getParameter",
                    req |-> [name |-> name],
                    rsp |-> [ret |-> getParameter(parameters, name)]]
    /\ UNCHANGED << millis, advances, pc, looptime, led_state, uptime, node_status,
                    fwupdate, canard_node_id, DNA, parameters, EEPROM, tx_queue,
                    ub_cast, comms, count,
                    bus,
                    motor_controller_, htim1_global, main_looptime >>

\* the node is restarted
Restart == Reboot

InitParam ==
    /\ motor_controller_ = MotorController
    /\ htim1_global = TIM1_started
    /\ main_looptime = U32(0)
    /\ bus = BusIdle
    /\ \E mem \in {ErasedStore, SavedStore} : InitWith(U32(0), mem)
    /\ advances = 0
    /\ last = [op |-> "init", req |-> NoRecord, rsp |-> NoRecord]
    /\ ub_cast \in UbCastValues
    /\ comms = CommsZero
    /\ count = 0

NextParam ==
    \/ ServeRequest
    \/ SendResponse
    \/ LocalSet
    \/ LocalGet
    \/ Restart

SpecParam == InitParam /\ [][NextParam]_vars


(***************************************************************************)
(* Properties of the parameter server.                                     *)
(***************************************************************************)
\* the name is the name of an entry of the parameter list
Listed(name) == \E i \in 1..NumParams : param_list[i].name = name

\* the step runs the handler named op: every handler records its request
\* in last, and a handler that repeats the request before it queues a
\* response
HandlesRequest(op) ==
    /\ last'.op = op
    /\ last' # last \/ Len(tx_queue') > Len(tx_queue)

\* a GetSet read request
ReadRequest(name, index) ==
    [name |-> name, index |-> index,
     value |-> [union_tag |-> PARAM_VALUE_EMPTY, payload |-> 0]]

IsOpcode(rec, opcode) ==
    /\ rec.op = "ExecuteOpcode"
    /\ rec.req.msg.opcode = opcode

\* C5: setParameter with a name of the list returns 0 and getParameter of
\* that name then returns the value set, also as the next call made; with
\* a name that is not in the list setParameter returns -1 and changes no
\* parameter, and getParameter returns FLT_MIN.
C5_LocalSetGet ==
    [][ /\ last'.op = "setParameter" =>
              IF Listed(last'.req.name)
              THEN /\ last'.rsp.ret = 0
                   /\ getParameter(parameters', last'.req.name) = last'.req.value
              ELSE /\ last'.rsp.ret = 0 - 1
                   /\ parameters' = parameters
        /\ (last'.op = "getParameter" /\ ~Listed(last'.req.name))
              => last'.rsp.ret = FLT_MIN
        /\ (last.op = "setParameter" /\ last'.op = "getParameter"
               /\ Listed(last.req.name) /\ last'.req.name = last.req.name)
              => last'.rsp.ret = last.req.value ]_vars

\* getParameter("PARM_1") has returned the 69 that setParameter stored
\* while NODEID holds another value
C5_Witness ==
    /\ last.op = "getParameter"
    /\ last.req.name = NAME_PARM(1)
    /\ last.rsp.ret = IntToFloat(69)
    /\ parameters[1] # IntToFloat(69)

\* C6: for every valid index i, the response to a GetSet read by index i
\* with an empty name equals the response to a GetSet read by the name of
\* parameter i, whatever the index field of the latter: same name, kind
\* and value.
C6_IndexNameAgree ==
    \A i \in 0..(NumParams - 1), j \in 0..NumParams :
        GetSet_rsp(parameters, GetSet_idx(ReadRequest(NAME_EMPTY, i)), ub_cast)
          = GetSet_rsp(parameters,
                       GetSet_idx(ReadRequest(param_list[i + 1].name, j)), ub_cast)

\* NODEID has been read by name, with an index field that points at
\* PARM_1, while the two parameters hold different values
C6_Witness ==
    /\ last.op = "GetSet"
    /\ last.req.msg.name = NAME_NODEID
    /\ last.req.msg.index = 1
    /\ last.req.msg.value.union_tag = PARAM_VALUE_EMPTY
    /\ last.rsp.name = NAME_NODEID
    /\ parameters[2] = IntToFloat(5)
    /\ parameters[1] = IntToFloat(42)

\* C7: a GetSet request with a non-empty name that matches no parameter is
\* answered with an empty name and an empty value, and changes no
\* parameter and no byte of the persistent store.
C7_UnknownNameNotFound ==
    [][ (HandlesRequest("GetSet") /\ Len(last'.req.msg.name) > 0
           /\ ~Listed(last'.req.msg.name))
            => /\ last'.rsp.name = NAME_EMPTY
               /\ last'.rsp.value.union_tag = PARAM_VALUE_EMPTY
               /\ parameters' = parameters
               /\ EEPROM' = EEPROM ]_vars

\* C8: after a GetSet request that carries a value and finds a parameter
\* of Integer or Real kind, the parameter holds the requested value, its
\* slot of the persistent store holds the same value, and the response
\* carries the parameter's name and kind and the requested value.
C8_SetStoresRequestedValue ==
    [][ (HandlesRequest("GetSet")
           /\ last'.req.msg.value.union_tag # PARAM_VALUE_EMPTY
           /\ last'.rsp.name # NAME_EMPTY)
            => LET idx  == GetSet_idx(last'.req.msg)
                   p    == param_list[idx + 1]
                   want == last'.req.msg.value
                   now  == parameters'[idx + 1]
               IN  p.type \in {PARAM_VALUE_INTEGER, PARAM_VALUE_REAL}
                     => /\ IF want.union_tag = PARAM_VALUE_INTEGER
                           THEN /\ FloatToIntDefined(now)
                                /\ FloatToInt(now, ub_cast) = want.payload
                           ELSE now = want.payload
                        /\ EEPROM_get(EEPROM', SlotAddr(idx)) = now
                        /\ last'.rsp.name = p.name
                        /\ last'.rsp.value.union_tag = p.type
                        /\ IF p.type = PARAM_VALUE_INTEGER
                           THEN Int64ToFloat(last'.rsp.value.payload) = now
                           ELSE last'.rsp.value.payload = now ]_vars

\* C9: ExecuteOpcode SAVE changes no parameter, and a restart that follows
\* it (before any other request or call) leaves every parameter with the
\* value it had before the restart, hence before the SAVE.
C9_SaveRestartRoundTrip ==
    [][ /\ (HandlesRequest("ExecuteOpcode") /\ IsOpcode(last', OPCODE_SAVE))
              => parameters' = parameters
        /\ (IsOpcode(last, OPCODE_SAVE) /\ last'.op = "restart")
              => parameters' = parameters ]_vars

\* the node has restarted after a SAVE, and PARM_1 holds the 69 that
\* setParameter had stored in memory only
C9_Witness ==
    /\ last.op = "restart"
    /\ last.req.after_op = "ExecuteOpcode"
    /\ last.req.after_req.msg.opcode = OPCODE_SAVE
    /\ parameters[2] = IntToFloat(69)
    /\ parameters[1] = IntToFloat(42)

\* C10: after ExecuteOpcode ERASE, getParameter returns for every parameter
\* its configured minimum, and so does a GetSet read, by index or by name
\* (as an integer for a parameter of Integer kind).
C10_EraseResetsToMinimum ==
    IsOpcode(last, OPCODE_ERASE)
        => \A i \in 1..NumParams :
              LET p   == param_list[i]
                  rsp == GetSet_rsp(parameters,
                                    GetSet_idx(ReadRequest(NAME_EMPTY, i - 1)), ub_cast)
              IN  /\ getParameter(parameters, p.name) = p.min_value
                  /\ rsp.name = p.name
                  /\ rsp.value.union_tag = p.type
                  /\ IF p.type = PARAM_VALUE_INTEGER
                     THEN Int64ToFloat(rsp.value.payload) = p.min_value
                     ELSE rsp.value.payload = p.min_value

\* ERASE has been handled while the persistent store still holds the 5.0
\* set for PARM_1 and the parameters had been changed
C10_Witness ==
    /\ IsOpcode(last, OPCODE_ERASE)
    /\ tx_queue # << >>
    /\ EEPROM_get(EEPROM, SlotAddr(1)) = IntToFloat(5)
    /\ EEPROM_get(EEPROM, SlotAddr(0)) = IntToFloat(42)

\* the parameter a GetSet request designates: the entry with the request's
\* name when the name is not empty, the entry at the request's index
\* otherwise
Designates(req, i) ==
    IF Len(req.name) > 0
    THEN param_list[i + 1].name = req.name
    ELSE req.index = i

\* the bytes of the persistent store outside the slot of parameter i
OutsideSlot(i) == { a \in EepromAddrs : a < SlotAddr(i) \/ a >= SlotAddr(i) + 4 }

\* C11: a step changes the persistent store only if it handles a GetSet
\* request that carries a value and designates a parameter of the list,
\* and then only that parameter's slot changes, or if it handles
\* ExecuteOpcode SAVE, after which every slot holds its parameter's value;
\* GetSet reads, requests that designate no parameter, ERASE, setParameter,
\* allocation messages and restarts change no byte of the store.
C11_StoreWrittenOnlyBySetAndSave ==
    [][ EEPROM' # EEPROM
          => \/ /\ HandlesRequest("GetSet")
                /\ last'.req.msg.value.union_tag # PARAM_VALUE_EMPTY
                /\ \E i \in 0..(NumParams - 1) :
                       /\ Designates(last'.req.msg, i)
                       /\ \A a \in OutsideSlot(i) : EEPROM'[a] = EEPROM[a]
             \/ /\ HandlesRequest("ExecuteOpcode")
                /\ last'.req.msg.opcode = OPCODE_SAVE
                /\ \A i \in 0..(NumParams - 1) :
                       EEPROM_get(EEPROM', SlotAddr(i)) = parameters'[i + 1] ]_vars

(***************************************************************************)
(* Firmware update, client role: send_firmware_read and                    *)
(* handle_file_read_response.  fwupdate.path is never assigned and         *)
(* fwupdate.fd never used; the offsets of the model stay far below 2^32.   *)
(***************************************************************************)
\* the quiet period of line 568
FW_READ_QUIET_MS == 750

\* transfer IDs are counted modulo 32 (line 602)
TRANSFER_ID_MODULO == 32

FILE_ERROR_OK == "OK"
FILE_ERROR_NOT_FOUND == "NOT_FOUND"

\* canardRequestOrRespond(&canard, destination, signature, data_type_id,
\*                        &transfer_id, priority, CanardRequest, payload)
canardRequest(queue, local_node_id, destination, data_type, transfer_id, priority, msg) ==
    IF local_node_id = CANARD_BROADCAST_NODE_ID
    THEN queue
    ELSE Append(queue, [transfer_type |-> "Request", data_type |-> data_type,
                        source_node_id |-> local_node_id,
                        destination_node_id |-> destination,
                        transfer_id |-> transfer_id, priority |-> priority,
                        msg |-> msg])

\* the transfer ID the transport leaves in *inout_transfer_id: the next
\* one, when it accepted the request
canardRequest_transfer_id(local_node_id, transfer_id) ==
    IF local_node_id = CANARD_BROADCAST_NODE_ID
    THEN transfer_id
    ELSE (transfer_id + 1) % TRANSFER_ID_MODULO

\* a comparison of the clock with the time the next read is allowed at
send_firmware_read_too_soon_no_wrap(now, last_read_ms) ==
    Lt32(now, Add32(last_read_ms, FW_READ_QUIET_MS))

\* line 568: now - fwupdate.last_read_ms < 750, in uint32_t arithmetic
send_firmware_read_too_soon(now, last_read_ms) ==
    Lt32(Sub32(now, last_read_ms), U32(FW_READ_QUIET_MS))

\* DroneCAN::send_firmware_read
send_firmware_read ==
    LET now == millis
        pkt == [offset |-> fwupdate.offset, path |-> << >>]
    IN  /\ IF send_firmware_read_too_soon(now, fwupdate.last_read_ms)
           THEN /\ UNCHANGED << fwupdate, tx_queue >>
                /\ last' = [op  |-> "send_firmware_read",
                            req |-> [now |-> now,
                                     last_read_ms |-> fwupdate.last_read_ms],
                            rsp |-> [issued |-> FALSE]]
           ELSE /\ fwupdate' =
                      [fwupdate EXCEPT
                          !.last_read_ms = now,
                          !.transfer_id =
                              canardRequest_transfer_id(canard_node_id, @)]
                /\ tx_queue' = canardRequest(tx_queue, canard_node_id,
                                             fwupdate.node_id, "file.Read",
                                             fwupdate.transfer_id, "HIGH", pkt)
                /\ last' = [op  |-> "send_firmware_read",
                            req |-> [now |-> now,
                                     last_read_ms |-> fwupdate.last_read_ms],
                            rsp |-> [issued |-> TRUE,
                                     destination |-> fwupdate.node_id,
                                     transfer_id |-> fwupdate.transfer_id,
                                     request |-> pkt]]
        /\ UNCHANGED << canard_node_id, DNA, parameters, EEPROM, node_status >>

\* a test of the transfer ID alone
FileRead_not_for_us_id_only(fw, transfer) ==
    (transfer.transfer_id + 1) % TRANSFER_ID_MODULO # fw.transfer_id

\* lines 602-603: the response is not the one of the outstanding request
FileRead_not_for_us(fw, transfer) ==
    \/ (transfer.transfer_id + 1) % TRANSFER_ID_MODULO # fw.transfer_id
    \/ transfer.source_node_id # fw.node_id

\* a handler that ends the session on a packet it cannot decode
FileRead_fwupdate_bad_packet_aborts(fw, transfer) ==
    IF FileRead_not_for_us(fw, transfer) THEN fw
    ELSE IF ~transfer.decodable THEN [fw EXCEPT !.node_id = 0]
    ELSE IF transfer.msg.error # FILE_ERROR_OK THEN [fw EXCEPT !.node_id = 0]
    ELSE [fw EXCEPT !.offset = @ + transfer.msg.data_len,
                    !.last_read_ms = U32(0)]

\* lines 602-636: fwupdate after the response
FileRead_fwupdate(fw, transfer) ==
    IF FileRead_not_for_us(fw, transfer) THEN fw
    ELSE IF ~transfer.decodable THEN fw
    ELSE IF transfer.msg.error # FILE_ERROR_OK THEN [fw EXCEPT !.node_id = 0]
    ELSE [fw EXCEPT !.offset = @ + transfer.msg.data_len,
                    !.last_read_ms = U32(0)]

\* DroneCAN::handle_file_read_response
handle_file_read_response(transfer) ==
    /\ fwupdate' = FileRead_fwupdate(fwupdate, transfer)
    /\ last' = [op |-> "file_read_response", req |-> transfer,
                rsp |-> [before |-> fwupdate, after |-> fwupdate']]
    /\ UNCHANGED << canard_node_id, DNA, parameters, EEPROM, node_status,
                    tx_queue >>

(***************************************************************************)
(* Firmware update, server role: handle_begin_firmware_update.  The        *)
(* handler calls processTx in a loop before it resets the MCU; its steps   *)
(* are separate actions so that what happens between them can be stated:   *)
(* lines 511-530 (the record), 532-549 (the response), one action per      *)
(* round of the loop of lines 551-556, and line 558 (the reset).           *)
(***************************************************************************)
\* lines 532-551: the response is submitted
BeginFirmwareUpdate_respond ==
    /\ pc = "bfu_respond"
    /\ pc' = "bfu_drain"
    /\ count' = BFU_DRAIN_COUNT
    /\ tx_queue' = canardRespond(tx_queue, canard_node_id,
                                 last.req.source_node_id,
                                 "file.BeginFirmwareUpdate",
                                 [error |-> FILE_ERROR_OK])
    /\ last' = [last EXCEPT !.rsp = [error |-> FILE_ERROR_OK]]
    /\ UNCHANGED << millis, advances, looptime, led_state, uptime, node_status,
                    fwupdate, canard_node_id, DNA, parameters, EEPROM, ub_cast,
                    comms, bus,
                    motor_controller_, htim1_global, main_looptime >>

\* lines 552-556: one round of the loop, processTx() and delay(1)
BeginFirmwareUpdate_drain ==
    /\ pc = "bfu_drain"
    /\ count > 0
    /\ count' = count - 1
    /\ tx_queue' = << >>
    /\ millis' = Add32(millis, 1)
    /\ UNCHANGED << advances, pc, looptime, led_state, uptime,
                    node_status, fwupdate, canard_node_id, DNA, parameters,
                    EEPROM, last, ub_cast, comms, bus,
                    motor_controller_, htim1_global, main_looptime >>

\* line 558: NVIC_SystemReset()
BeginFirmwareUpdate_reset ==
    /\ pc = "bfu_drain"
    /\ count = 0
    /\ Reboot

\* DroneCANonTransferReceived, line 778: delay(200)
RestartNode_delay ==
    /\ pc = "restart_delay"
    /\ pc' = "restart_reset"
    /\ millis' = Add32(millis, RESTART_DELAY_MS)
    /\ UNCHANGED << advances, looptime, led_state, uptime, node_status,
                    fwupdate, canard_node_id, DNA, parameters, EEPROM, tx_queue,
                    last, ub_cast, comms, count, bus,
                    motor_controller_, htim1_global, main_looptime >>

\* DroneCANonTransferReceived, line 780: NVIC_SystemReset(); the broadcast
\* queued at line 768 has not been sent and is lost with the queue
RestartNode_reset ==
    /\ pc = "restart_reset"
    /\ RebootAfter("RestartNode", last.req)

(***************************************************************************)
(* The public member functions send_firmware_read and                      *)
(* handle_file_read_response, called in every state of a read flow.  The   *)
(* program never holds such a flow: init() leaves fwupdate all zero, line  *)
(* 619 (fwupdate.node_id = 0) is the only assignment to the node ID of     *)
(* the session, and neither function has a caller in the repository.  The  *)
(* sessions of FwSessions are therefore inputs of the two functions and    *)
(* not states of the program, and FwReadStep and FwResponse are calls a    *)
(* user of the library would make; what is checked here are contracts of   *)
(* the two functions over every such input.                                *)
(***************************************************************************)
\* the largest offset a session of the model reaches
MaxOffset == 1024

\* the payload lengths of read responses
DataLens == {256}

\* the node ID the allocator gave the node
ALLOCATED_NODE_ID == 7

\* 2^32 - 500
ClockBeforeWrap == << Half - 1, Half - 500 >>

FwClocks == { U32(0), ClockBeforeWrap }

\* the sessions the two functions are called with: the last read was issued
\* at the clock value t or re-armed by a response; the next transfer ID is
\* 31, the last before the transfer IDs start again at 0
FwSessions(t) ==
    { [node_id |-> ALLOCATOR_NODE_ID, transfer_id |-> TRANSFER_ID_MODULO - 1,
       last_read_ms |-> lr, offset |-> MaxOffset - 256] : lr \in {U32(0), t} }

FileReadResponse(src, tid, dec, error, len) ==
    [transfer_type |-> "Response", data_type |-> "file.Read",
     source_node_id |-> src, transfer_id |-> tid, decodable |-> dec,
     msg |-> [error |-> error, data_len |-> len]]

\* read responses with the transfer IDs 30, 31 and 0: from the file
\* server undecodable, with an error and with data, from another node with
\* data
FileReadResponses ==
    { FileReadResponse(ALLOCATOR_NODE_ID, tid, k.dec, k.error, k.len) :
          tid \in {TRANSFER_ID_MODULO - 2, TRANSFER_ID_MODULO - 1, 0},
          k \in { [dec |-> FALSE, error |-> FILE_ERROR_OK, len |-> 0],
                  [dec |-> TRUE, error |-> FILE_ERROR_NOT_FOUND, len |-> 0] }
                \cup { [dec |-> TRUE, error |-> FILE_ERROR_OK, len |-> l] :
                           l \in DataLens } }
    \cup { FileReadResponse(ALLOCATOR_NODE_ID - 1, tid, TRUE, FILE_ERROR_OK, l) :
               tid \in {TRANSFER_ID_MODULO - 2, TRANSFER_ID_MODULO - 1, 0},
               l \in DataLens }

\* a call of send_firmware_read() (a public member function; no call of it
\* is in the repository)
FwReadStep ==
    /\ pc = "cycle"
    /\ send_firmware_read
    /\ UNCHANGED << millis, advances, pc, looptime, led_state, uptime, ub_cast,
                    comms, count,
                    bus,
                    motor_controller_, htim1_global, main_looptime >>

\* a call of handle_file_read_response(transfer) (a public member function;
\* no call of it is in the repository)
FwResponse ==
    /\ pc = "cycle"
    /\ \E transfer \in FileReadResponses :
           /\ fwupdate.offset + transfer.msg.data_len <= MaxOffset
           /\ handle_file_read_response(transfer)
    /\ UNCHANGED << millis, advances, pc, looptime, led_state, uptime, ub_cast,
                    comms, count,
                    bus,
                    motor_controller_, htim1_global, main_looptime >>

InitFw ==
    /\ motor_controller_ = MotorController
    /\ htim1_global = TIM1_started
    /\ main_looptime = U32(0)
    /\ bus = BusIdle
    /\ \E t \in FwClocks :
           /\ millis = t
           /\ fwupdate \in FwSessions(t)
    /\ advances = 0
    /\ pc = "cycle"
    /\ looptime = U32(0)
    /\ led_state = FALSE
    /\ uptime = 0
    /\ node_status = [uptime_sec |-> 0, health |-> "OK", mode |-> "OPERATIONAL",
                      sub_mode |-> 0, vendor_specific_status_code |-> 0]
    /\ canard_node_id = canardSetLocalNodeID(CANARD_BROADCAST_NODE_ID,
                                             ALLOCATED_NODE_ID)
    /\ DNA = [send_next_node_id_allocation_request_at_ms |-> U32(0),
              node_id_allocation_unique_id_offset |-> 0]
    /\ parameters = read_parameter_memory(SavedStore)
    /\ EEPROM = SavedStore
    /\ tx_queue = << >>
    /\ last = [op |-> "init", req |-> NoRecord, rsp |-> NoRecord]
    /\ ub_cast = "saturate"
    /\ comms = CommsZero
    /\ count = 0

NextFw ==
    \/ AdvanceClock
    \/ Cycle1Hz
    \/ ProcessRxNone
    \/ ProcessTx
    \/ RequestDNA
    \/ FwReadStep
    \/ FwResponse

SpecFw == InitFw /\ [][NextFw]_vars

(***************************************************************************)
(* The engine's main loop with the transfers of the firmware update: the   *)
(* node holds its node ID and no read flow (fwupdate as init() leaves it); *)
(* it receives read responses of a file server, and begin-update and       *)
(* RestartNode requests.                                                   *)
(***************************************************************************)
\* a record left by something else than this handler: no magic
CommsGarbage == [magic |-> U32(1), server_node_id |-> 3, my_node_id |-> 4,
                 path |-> << 120, 121, 122 >>]

\* parameter requests whose payload does not decode; msg is what the
\* sender meant: set NODEID to 42, erase
MalformedParamTransfers ==
    { [GetSetTransfer(NAME_NODEID, 0, PARAM_VALUE_INTEGER, I64(42))
           EXCEPT !.decodable = FALSE],
      [ExecuteOpcodeTransfer(OPCODE_ERASE) EXCEPT !.decodable = FALSE] }

\* GetSet requests that set NODEID (an Integer between 0 and 127) to an
\* integer out of its range: 200, and 2^24 + 1, which no float holds
OutOfRangeSets ==
    { GetSetTransfer(NAME_NODEID, 0, PARAM_VALUE_INTEGER, I64(v)) :
          v \in {200, 16777217} }

\* the transfers the dispatcher is handed in specification SpecBoot
BootTransfers ==
    { FileReadResponse(ALLOCATOR_NODE_ID, TRANSFER_ID_MODULO - 1, TRUE,
                       FILE_ERROR_OK, l) : l \in DataLens }
    \cup { GetNodeInfoTransfer }
    \cup MalformedParamTransfers
    \cup OutOfRangeSets
    \cup BeginFirmwareUpdateTransfers
    \cup { RestartNodeTransfer }

\* DroneCAN::processRx with a frame that completes a transfer
ProcessRxBoot ==
    /\ pc = "processRx"
    /\ \E transfer \in Accepted(BootTransfers) : Dispatch(transfer, 0, NoJunk)
    /\ UNCHANGED << millis, advances, looptime, led_state, uptime, fwupdate,
                    ub_cast, count,
                    bus,
                    motor_controller_, htim1_global, main_looptime >>

InitBoot ==
    /\ motor_controller_ = MotorController
    /\ htim1_global = TIM1_started
    /\ main_looptime = U32(0)
    /\ bus = BusIdle
    /\ millis = U32(0)
    /\ fwupdate = [node_id |-> 0, transfer_id |-> 0,
                   last_read_ms |-> U32(0), offset |-> 0]
    /\ advances = 0
    /\ pc = "cycle"
    /\ looptime = U32(0)
    /\ led_state = FALSE
    /\ uptime = 0
    /\ node_status = [uptime_sec |-> 0, health |-> "OK", mode |-> "OPERATIONAL",
                      sub_mode |-> 0, vendor_specific_status_code |-> 0]
    /\ canard_node_id = canardSetLocalNodeID(CANARD_BROADCAST_NODE_ID,
                                             ALLOCATED_NODE_ID)
    /\ DNA = [send_next_node_id_allocation_request_at_ms |-> U32(0),
              node_id_allocation_unique_id_offset |-> 0]
    /\ parameters = read_parameter_memory(SavedStore)
    /\ EEPROM = SavedStore
    /\ tx_queue = << >>
    /\ last = [op |-> "init", req |-> NoRecord, rsp |-> NoRecord]
    /\ ub_cast = "saturate"
    /\ comms \in {CommsZero, CommsGarbage}
    /\ count = 0

NextBoot ==
    \/ AdvanceClock
    \/ Cycle1Hz
    \/ ProcessRxBoot
    \/ ProcessRxNone
    \/ RestartNode_delay
    \/ RestartNode_reset
    \/ BeginFirmwareUpdate_respond
    \/ BeginFirmwareUpdate_drain
    \/ BeginFirmwareUpdate_reset
    \/ ProcessTx
    \/ RequestDNA

SpecBoot == InitBoot /\ [][NextBoot]_vars

(***************************************************************************)
(* Properties of the firmware read flow.                                   *)
(***************************************************************************)
\* the step is a call of the function named op, which records itself in
\* last
Calls(op) == last'.op = op /\ last' # last

\* the time since the last read was issued, in uint32_t arithmetic
SinceLastRead == Sub32(millis, fwupdate.last_read_ms)

\* the step queues a read request
IssuesRead ==
    \E t \in NewTransfers : t.transfer_type = "Request" /\ t.data_type = "file.Read"

\* the transfer ID of the outstanding read request: the one before the
\* next transfer ID of the session
OutstandingTransferId(fw) ==
    (fw.transfer_id + TRANSFER_ID_MODULO - 1) % TRANSFER_ID_MODULO

\* the response answers the outstanding read request
Matches(fw, transfer) ==
    /\ transfer.transfer_id = OutstandingTransferId(fw)
    /\ transfer.source_node_id = fw.node_id

\* C12: the read step issues a request exactly when 750 ms or more have
\* passed since the last read was issued, counted modulo 2^32, and then
\* takes the clock value as the time of the last read (so two consecutive
\* reads are at least 750 ms apart and a read is issued whenever the quiet
\* period has elapsed); no step other than an issued read and a matching
\* response with data changes the time of the last read.
C12_ReadCadence ==
    [][ /\ Calls("send_firmware_read")
            => /\ IssuesRead <=> ~Lt32(SinceLastRead, U32(750))
               /\ IssuesRead => fwupdate'.last_read_ms = millis
               /\ ~IssuesRead => fwupdate' = fwupdate
        /\ fwupdate'.last_read_ms # fwupdate.last_read_ms
            => \/ Calls("send_firmware_read")
               \/ /\ Calls("file_read_response")
                  /\ Matches(fwupdate, last'.req)
                  /\ last'.req.decodable
                  /\ last'.req.msg.error = FILE_ERROR_OK ]_vars

\* a read was issued after the clock wrapped around, 1001 ms after the read
\* before it, which was issued before the clock wrapped around
C12_Witness ==
    /\ last.op = "send_firmware_read"
    /\ last.rsp.issued
    /\ Len(tx_queue) > 0
    /\ last.req.last_read_ms = ClockBeforeWrap
    /\ last.req.now = U32(501)
    /\ fwupdate.last_read_ms = U32(501)

\* C13: a read response whose transfer ID is not the one of the outstanding
\* request, or whose source is not the session's file server, changes no
\* field of the session (and nothing else of the engine), also when it
\* answers an earlier read that has been issued again since.
C13_MismatchIgnored ==
    [][ (Calls("file_read_response") /\ ~Matches(fwupdate, last'.req))
            => /\ fwupdate' = fwupdate
               /\ UNCHANGED << tx_queue, node_status, canard_node_id, DNA,
                               parameters, EEPROM, comms >> ]_vars

\* a response with data from the file server that answers the read before
\* the outstanding one was handled, and the session is as it was when the
\* outstanding read was issued
C13_Witness ==
    /\ last.op = "file_read_response"
    /\ last.req.source_node_id = fwupdate.node_id
    /\ last.req.decodable
    /\ last.req.msg.error = FILE_ERROR_OK
    /\ OutstandingTransferId(fwupdate) = 0
    /\ last.req.transfer_id = TRANSFER_ID_MODULO - 1
    /\ fwupdate.offset = MaxOffset - 256
    /\ fwupdate.last_read_ms # U32(0)

\* C14: a response that answers the outstanding request and carries an
\* error code sets the session's node ID to 0 and leaves its offset as it
\* is; one that cannot be decoded changes no field of the session.
C14_ErrorEndsSession ==
    [][ (Calls("file_read_response") /\ Matches(fwupdate, last'.req))
            => /\ ~last'.req.decodable => fwupdate' = fwupdate
               /\ (last'.req.decodable /\ last'.req.msg.error # FILE_ERROR_OK)
                      => /\ fwupdate'.node_id = 0
                         /\ fwupdate'.offset = fwupdate.offset ]_vars

\* an error response has ended a session that had read data before
C14_Witness ==
    /\ last.op = "file_read_response"
    /\ last.req.decodable
    /\ last.req.msg.error = FILE_ERROR_NOT_FOUND
    /\ last.req.source_node_id = ALLOCATOR_NODE_ID
    /\ fwupdate.node_id = 0
    /\ fwupdate.offset = MaxOffset

(***************************************************************************)
(* Properties of the main loop with the transfers of the firmware update.  *)
(***************************************************************************)
\* the step takes a begin-update request that decodes from processRx
ReceivesBeginUpdate ==
    /\ pc = "processRx"
    /\ last' # last
    /\ last'.op = "BeginFirmwareUpdate"
    /\ last'.req.decodable

\* the engine state that only protocol handlers and ticks change
HandlerState ==
    << fwupdate, canard_node_id, DNA, parameters, EEPROM, node_status, uptime,
       looptime >>

\* the steps of the handler of a begin-update request and what each of
\* them changes
C18_Steps ==
    [][ /\ ReceivesBeginUpdate
            => LET req == last'.req
               IN  /\ pc' = "bfu_respond"
                   /\ comms'.magic = APP_BOOTLOADER_COMMS_MAGIC
                   /\ comms'.server_node_id =
                          (IF req.msg.source_node_id # 0
                           THEN req.msg.source_node_id
                           ELSE req.source_node_id)
                   /\ comms'.my_node_id = canard_node_id
                   /\ SubSeq(comms'.path, 1, Len(req.msg.path)) = req.msg.path
                   /\ tx_queue' = tx_queue
                   /\ UNCHANGED << HandlerState, millis >>
        /\ pc' = "bfu_respond" => ReceivesBeginUpdate
        /\ pc = "bfu_respond"
            => /\ pc' = "bfu_drain"
               /\ count' = 50
               /\ canard_node_id # 0
                    => \E t \in NewTransfers :
                           /\ t.transfer_type = "Response"
                           /\ t.data_type = "file.BeginFirmwareUpdate"
                           /\ t.destination_node_id = last.req.source_node_id
                           /\ t.msg.error = FILE_ERROR_OK
               /\ last'.op = "BeginFirmwareUpdate"
               /\ UNCHANGED << comms, HandlerState, millis >>
        /\ (pc = "bfu_drain" /\ count > 0)
            => /\ pc' = "bfu_drain"
               /\ count' = count - 1
               /\ tx_queue' = << >>
               /\ UNCHANGED << comms, last, HandlerState >>
        /\ (pc = "bfu_drain" /\ count = 0)
            => /\ last'.op = "restart"
               /\ last'.req.after_op = "BeginFirmwareUpdate"
               /\ pc' = "cycle"
               /\ UNCHANGED << comms, EEPROM >> ]_vars

\* the handler runs on to its end: the MCU goes on executing it
SpecBootFair ==
    /\ SpecBoot
    /\ WF_vars(BeginFirmwareUpdate_respond)
    /\ WF_vars(BeginFirmwareUpdate_drain)
    /\ WF_vars(BeginFirmwareUpdate_reset)

\* C18: a begin-update request that decodes is handled in this order and
\* by nothing else: first the boot-handoff record is written (the magic,
\* the server to fetch from, which is the requester when the request names
\* none, this node's ID and the path), then the OK response is submitted
\* to the requester, then the queue is drained in exactly 50 rounds during
\* which no handler runs and the record stays as written, then the node
\* restarts; and the restart is reached after every such request.
C18_BeginUpdateSequence ==
    /\ C18_Steps
    /\ (pc = "bfu_respond") ~> (last.op = "restart")

\* the node has restarted after a begin-update request that named no
\* server, and the record names the requester, the node ID the node had and
\* the path
C18_Witness ==
    /\ last.op = "restart"
    /\ last.req.after_op = "BeginFirmwareUpdate"
    /\ count = 0
    /\ comms = [magic |-> APP_BOOTLOADER_COMMS_MAGIC,
                server_node_id |-> ALLOCATOR_NODE_ID,
                my_node_id |-> ALLOCATED_NODE_ID, path |-> << 97 >>]

\* C19: the node restarts only as the last step of the handler of a
\* begin-update request, after its 50 rounds of draining: no other
\* transfer and no tick restarts it.
C19_RestartOnlyAfterBeginUpdate ==
    [][ (last'.op = "restart" /\ last' # last)
            => /\ pc = "bfu_drain"
               /\ count = 0
               /\ last.op = "BeginFirmwareUpdate" ]_vars

(***************************************************************************)
(* The order of the steps of cycle().                                      *)
(***************************************************************************)
\* the step runs the 1 Hz tasks: it takes the clock value as the time of
\* their last run and sends the heartbeat
Runs1HzTasks == looptime' # looptime /\ uptime' = uptime + 1

\* C20: in every round of cycle() processRx runs first and processTx right
\* after it, and the 1 Hz tasks run only after both.
C20_CycleOrder ==
    [][ /\ pc = "processRx" => pc' = "processTx"
        /\ Runs1HzTasks => pc \notin {"cycle", "processRx", "processTx"} ]_vars

(***************************************************************************)
(* Properties of the heartbeat and of the node-info response.              *)
(***************************************************************************)
\* the heartbeats a step queues
NewHeartbeats == { t \in NewTransfers : t.data_type = "NodeStatus" }

\* C21: every heartbeat reports health OK; it reports the mode
\* SOFTWARE_UPDATE and the session's offset divided by 1024 when the
\* session's node ID is not 0 at the time it is sent, and the mode
\* OPERATIONAL and status code 0 when it is 0.
C21_HeartbeatMode ==
    [][ \A t \in NewHeartbeats :
            /\ t.msg.health = "OK"
            /\ IF fwupdate.node_id # 0
               THEN /\ t.msg.mode = "SOFTWARE_UPDATE"
                    /\ t.msg.vendor_specific_status_code = fwupdate.offset \div 1024
               ELSE /\ t.msg.mode = "OPERATIONAL"
                    /\ t.msg.vendor_specific_status_code = 0 ]_vars

\* a heartbeat sent after an error response ended a session that had read
\* 1024 bytes is queued
C21_Witness ==
    /\ fwupdate.node_id = 0
    /\ fwupdate.offset = MaxOffset
    /\ \E k \in 1..Len(tx_queue) :
           /\ tx_queue[k].data_type = "NodeStatus"
           /\ tx_queue[k].msg.mode = "OPERATIONAL"
           /\ tx_queue[k].msg.vendor_specific_status_code = 0

\* C22: the uptime counter changes only in the step that sends the
\* heartbeat, which reports the counter's value and adds one to it, so the
\* k-th heartbeat reports k - 1; a node-info response reports the counter's
\* value, which is larger than what every earlier heartbeat reported and
\* is what the next heartbeat will report, and leaves the counter as it is.
C22_UptimeCounts ==
    [][ /\ uptime' # uptime => looptime' # looptime
        /\ looptime' # looptime
            => /\ uptime' = uptime + 1
               /\ node_status'.uptime_sec = uptime
               /\ \A t \in NewHeartbeats : t.msg.uptime_sec = uptime
        /\ Calls("GetNodeInfo")
            => /\ last'.rsp.status.uptime_sec = uptime
               /\ uptime' = uptime
               /\ node_status.uptime_sec <= last'.rsp.status.uptime_sec ]_vars

\* the second heartbeat, which reported 1, and a node-info response sent
\* after it in the same round, which reported 2, are queued
C22_Witness ==
    /\ last.op = "GetNodeInfo"
    /\ last.rsp.status.uptime_sec = 2
    /\ uptime = 2
    /\ Len(tx_queue) = 2
    /\ tx_queue[1].data_type = "NodeStatus"
    /\ tx_queue[1].msg.uptime_sec = 1
    /\ tx_queue[2].data_type = "GetNodeInfo"
    /\ tx_queue[2].msg.status.uptime_sec = 2

\* C23: handling a GetNodeInfo request changes nothing of the engine but
\* the transmit queue: the node status snapshot with its uptime field, the
\* uptime counter, the parameters, the DNA state and the firmware session
\* are as before.
C23_GetNodeInfoReadOnly ==
    [][ Calls("GetNodeInfo")
            => UNCHANGED << node_status, uptime, parameters, EEPROM, DNA,
                            fwupdate, canard_node_id >> ]_vars

\* C24: a GetSet or ExecuteOpcode request whose payload does not decode
\* queues no response and changes no parameter and no byte of the
\* persistent store.
C24_MalformedDropped ==
    [][ ((Calls("GetSet") \/ Calls("ExecuteOpcode")) /\ ~last'.req.decodable)
            => UNCHANGED << tx_queue, parameters, EEPROM >> ]_vars

\* a GetSet request that does not decode was handled by a node that has a
\* node ID, whose NODEID is still 127, and nothing is queued
C24_Witness ==
    /\ last.op = "GetSet"
    /\ ~last.req.decodable
    /\ canard_node_id # CANARD_BROADCAST_NODE_ID
    /\ pc = "processTx"
    /\ tx_queue = << >>
    /\ parameters[1] = IntToFloat(127)

\* C25: the acceptance predicate and the dispatcher agree: a transfer the
\* dispatcher drops for want of a handler is of a type the acceptance
\* predicate rejects.
C25_AcceptedIffRouted ==
    [][ (pc = "processRx" /\ last'.op = "dropped")
            => ~DroneCANshoudlAcceptTransfer(last'.req.data_type,
                                             last'.req.transfer_type) ]_vars

(***************************************************************************)
(* The DNA client with the stores that decide the preferred node ID.  The  *)
(* contents of the persistent store at power-on are an input of the        *)
(* program: the store is erased, holds the list's initial values, or holds *)
(* in its first slot the bytes of __FLT_MIN__, the value getParameter      *)
(* returns for a name it does not find.                                    *)
(***************************************************************************)
\* the persistent store whose first slot holds the bytes of __FLT_MIN__
SentinelStore == EEPROM_put(SavedStore, SlotAddr(0), FLT_MIN)

InitPref ==
    /\ motor_controller_ = MotorController
    /\ htim1_global = TIM1_started
    /\ main_looptime = U32(0)
    /\ bus = BusIdle
    /\ \E mem \in {ErasedStore, SavedStore, SentinelStore} : InitWith(U32(0), mem)
    /\ advances = 0
    /\ last = [op |-> "init", req |-> NoRecord, rsp |-> NoRecord]
    /\ ub_cast \in UbCastValues
    /\ comms = CommsZero
    /\ count = 0

NextPref ==
    \/ AdvanceClock
    \/ Cycle1Hz
    \/ ProcessRxNone
    \/ ProcessTx
    \/ RequestDNA

SpecPref == InitPref /\ [][NextPref]_vars

\* the step is a tick of the DNA client that sends a request
SendsAllocationRequest ==
    /\ pc = "request_DNA"
    /\ pc' = "cycle"
    /\ ~request_DNA_idle(canard_node_id, millis, DNA)

\* C26: when the lookup of NODEID yields the not-found value, the
\* allocation request carries the preferred ID 69 and the default is stored
\* as the NODEID parameter: from then on getParameter("NODEID") returns 69
\* and not the not-found value, and the node's later requests carry 69.
C26_PreferredDefault ==
    [][ /\ (SendsAllocationRequest
             /\ getParameter(parameters, NAME_NODEID) = FLT_MIN)
            => /\ \A t \in NewTransfers : t.msg.node_id = PREFERRED_NODE_ID
               /\ getParameter(parameters', NAME_NODEID)
                      = IntToFloat(PREFERRED_NODE_ID)
        /\ (/\ EEPROM = SentinelStore
            /\ getParameter(parameters, NAME_NODEID) # FLT_MIN)
            => /\ getParameter(parameters, NAME_NODEID)
                      = IntToFloat(PREFERRED_NODE_ID)
               /\ getParameter(parameters', NAME_NODEID)
                      = IntToFloat(PREFERRED_NODE_ID)
               /\ \A t \in NewTransfers : t.msg.node_id = PREFERRED_NODE_ID
        /\ getParameter(parameters, NAME_NODEID) # FLT_MIN
            => getParameter(parameters', NAME_NODEID) # FLT_MIN ]_vars

\* the node started from the store with the not-found value; some time
\* after the start a request with the preferred ID 69 and the first-stage
\* flag is queued, and getParameter("NODEID") returns 69
C26_Witness ==
    /\ EEPROM = SentinelStore
    /\ last.op = "request_DNA"
    /\ pc = "cycle"
    /\ millis # U32(0)
    /\ getParameter(parameters, NAME_NODEID) = IntToFloat(PREFERRED_NODE_ID)
    /\ Len(tx_queue) = 1
    /\ tx_queue[1].data_type = "dynamic_node_id.Allocation"
    /\ tx_queue[1].msg.node_id = PREFERRED_NODE_ID
    /\ tx_queue[1].msg.first_part_of_unique_id

(***************************************************************************)
(* Properties of the DNA client's stages.                                  *)
(***************************************************************************)
\* the step hands an allocation broadcast to a node without a node ID
ReceivesAllocation ==
    /\ pc = "processRx"
    /\ last'.op = "DNA_Allocation"
    /\ canard_node_id = CANARD_BROADCAST_NODE_ID

\* t lies in [from, from + width), in uint32_t arithmetic
Within32(t, from, width) == Lt32(Sub32(t, from), U32(width))

\* C27: an allocator response (source not 0) whose unique ID has fewer than
\* 16 bytes, all equal to the first bytes of the local ID, sets the offset
\* to that length, leaves the node without a node ID and schedules the next
\* request within MAX_FOLLOWUP_DELAY of now.
C27_StageConfirmation ==
    [][ (/\ ReceivesAllocation
         /\ last'.req.source_node_id # CANARD_BROADCAST_NODE_ID
         /\ Len(last'.req.msg.unique_id) < 16
         /\ last'.req.msg.unique_id = UidPrefix(Len(last'.req.msg.unique_id)))
            => /\ DNA'.node_id_allocation_unique_id_offset
                      = Len(last'.req.msg.unique_id)
               /\ canard_node_id' = CANARD_BROADCAST_NODE_ID
               /\ Within32(DNA'.send_next_node_id_allocation_request_at_ms,
                           millis, MAX_FOLLOWUP_DELAY_MS) ]_vars

\* the allocator has confirmed 12 bytes at a time after the start; the next
\* request is due 399 ms later and the node has no node ID
C27_Witness ==
    /\ last.op = "DNA_Allocation"
    /\ last.req.source_node_id = ALLOCATOR_NODE_ID
    /\ last.req.msg.unique_id = UidPrefix(12)
    /\ pc = "processTx"
    /\ millis # U32(0)
    /\ canard_node_id = CANARD_BROADCAST_NODE_ID
    /\ DNA.node_id_allocation_unique_id_offset = 12
    /\ DNA.send_next_node_id_allocation_request_at_ms
           = Add32(millis, MAX_FOLLOWUP_DELAY_MS - 1)

\* C28: every allocation request carries the preferred node ID in the upper
\* seven bits of its first byte, has the first-stage flag set exactly when
\* the offset is 0 at send time, and carries min(6, 16 - offset) bytes of
\* the unique ID from the offset on, none beyond byte 15.
C28_RequestContents ==
    [][ \A t \in NewTransfers :
            t.data_type = "dynamic_node_id.Allocation"
                => LET offset == DNA.node_id_allocation_unique_id_offset
                       n      == Min(MaxLenOfUniqueIDInRequest, 16 - offset)
                   IN  /\ t.msg.node_id = get_preferred_node_id(parameters, ub_cast)
                       /\ t.msg.first_part_of_unique_id <=> (offset = 0)
                       /\ Len(t.msg.unique_id) = n
                       /\ offset + n <= 16
                       /\ \A k \in 1..n :
                              t.msg.unique_id[k] = getUniqueID[offset + k] ]_vars

\* the step is a tick of the DNA client of a node without a node ID
TicksUnallocated ==
    /\ pc = "request_DNA"
    /\ pc' = "cycle"
    /\ canard_node_id = CANARD_BROADCAST_NODE_ID

\* C29: a tick of the DNA client of a node without a node ID does nothing
\* before the time of the next request; from that time on it submits one
\* allocation request, and whether the transport accepts it (the request
\* is then the one transfer added to the queue) or refuses it (the queue
\* stays as it is), the offset is 0 afterwards and the next request is due
\* between MIN_REQUEST_PERIOD and MIN_REQUEST_PERIOD + MAX_FOLLOWUP_DELAY
\* from now.
C29_Tick ==
    [][ TicksUnallocated
            => IF Lt32(millis, DNA.send_next_node_id_allocation_request_at_ms)
               THEN /\ UNCHANGED << DNA, tx_queue, canard_node_id >>
                    /\ last'.rsp = NoRecord
               ELSE /\ last'.op = "request_DNA"
                    /\ last'.rsp.accepted \in BOOLEAN
                    /\ Len(tx_queue')
                           = Len(tx_queue) + (IF last'.rsp.accepted THEN 1 ELSE 0)
                    /\ SubSeq(tx_queue', 1, Len(tx_queue)) = tx_queue
                    /\ \A t \in NewTransfers :
                           /\ t.transfer_type = "Broadcast"
                           /\ t.data_type = "dynamic_node_id.Allocation"
                    /\ DNA'.node_id_allocation_unique_id_offset = 0
                    /\ Within32(DNA'.send_next_node_id_allocation_request_at_ms,
                                Add32(millis, MIN_REQUEST_PERIOD_MS),
                                MAX_FOLLOWUP_DELAY_MS) ]_vars

\* the transport refused the third-stage request (offset 12) some time
\* after the start: nothing is queued, the offset is 0 again and the next
\* request is due 999 ms later
C29_Witness ==
    /\ last.op = "request_DNA"
    /\ last.rsp = [accepted |-> FALSE]
    /\ pc = "cycle"
    /\ millis # U32(0)
    /\ tx_queue = << >>
    /\ last.req.offset = 12
    /\ DNA.node_id_allocation_unique_id_offset = 0
    /\ DNA.send_next_node_id_allocation_request_at_ms
           = Add32(millis, MIN_REQUEST_PERIOD_MS + MAX_FOLLOWUP_DELAY_MS - 1)

\* C30: an allocation broadcast from source node 0, received by a node
\* without a node ID, sets the offset to 0 and leaves the node without a
\* node ID, whatever its payload.
C30_Contention ==
    [][ (ReceivesAllocation /\ last'.req.source_node_id = CANARD_BROADCAST_NODE_ID)
            => /\ DNA'.node_id_allocation_unique_id_offset = 0
               /\ canard_node_id' = CANARD_BROADCAST_NODE_ID ]_vars

\* a broadcast from source node 0 that carries all 16 bytes of the local
\* unique ID and node ID 7 has been received: the offset is 0 and the node
\* has no node ID
C30_Witness ==
    /\ last.op = "DNA_Allocation"
    /\ last.req.source_node_id = CANARD_BROADCAST_NODE_ID
    /\ last.req.msg.unique_id = getUniqueID
    /\ last.req.msg.node_id = 7
    /\ pc = "processTx"
    /\ DNA.node_id_allocation_unique_id_offset = 0
    /\ canard_node_id = CANARD_BROADCAST_NODE_ID
    /\ DNA.send_next_node_id_allocation_request_at_ms
           = NextRequestAt(millis, MAX_FOLLOWUP_DELAY_MS - 1)
    /\ millis # U32(0)

(***************************************************************************)
(* The DNA client with an allocator on the bus.  The allocator is another  *)
(* node: it receives every allocation request the node transmits, appends  *)
(* the bytes to the unique ID it has accumulated (it starts again on a     *)
(* request with the first-stage flag) and answers with what it has, adding *)
(* a node ID once it has all 16 bytes.  Its answer is the next transfer    *)
(* the node receives, and no time passes while a request is unanswered.    *)
(***************************************************************************)
RECURSIVE Accumulated(_)
\* the unique-ID bytes the allocator holds after the requests it has seen
Accumulated(seen) ==
    IF seen = << >> THEN << >>
    ELSE LET r == seen[Len(seen)]
         IN  IF r.first_part_of_unique_id THEN r.unique_id
             ELSE Accumulated(SubSeq(seen, 1, Len(seen) - 1)) \o r.unique_id

\* the allocator's answer after the requests it has seen
AllocatorReply(seen) ==
    LET acc == Accumulated(seen)
    IN  AllocationTransfer(ALLOCATOR_NODE_ID, acc,
                           IF Len(acc) = 16 THEN ALLOCATED_NODE_ID ELSE 0)

\* the allocation requests among the transfers of a queue, in queue order
AllocationRequestsIn(queue) ==
    LET reqs == SelectSeq(queue, LAMBDA t : t.data_type = "dynamic_node_id.Allocation")
    IN  [k \in 1..Len(reqs) |-> reqs[k].msg]

\* DroneCAN::processRx: the frame that completes the allocator's answer, if
\* there is one, else no frame
DnaProcessRx ==
    /\ pc = "processRx"
    /\ IF bus.reply # NoRecord
       THEN /\ \E rnd \in RandomValues : Dispatch(bus.reply, rnd, NoJunk)
            /\ bus' = [bus EXCEPT !.reply = NoRecord]
       ELSE /\ last' = [op |-> "processRx", req |-> NoRecord, rsp |-> NoRecord]
            /\ pc' = "processTx"
            /\ UNCHANGED << canard_node_id, DNA, parameters, EEPROM, node_status,
                            tx_queue, bus, comms >>
    /\ UNCHANGED << millis, advances, looptime, led_state, uptime, fwupdate,
                    ub_cast, count,
                    motor_controller_, htim1_global, main_looptime >>

\* DroneCAN::processTx: every queued frame is sent and popped; the allocator
\* receives the allocation requests among them
DnaProcessTx ==
    /\ pc = "processTx"
    /\ pc' = "request_DNA"
    /\ tx_queue' = << >>
    /\ LET reqs == AllocationRequestsIn(tx_queue)
       IN  IF reqs = << >>
           THEN UNCHANGED bus
           ELSE bus' = [bus EXCEPT !.seen = @ \o reqs,
                                   !.reply = AllocatorReply(bus.seen \o reqs)]
    /\ UNCHANGED << millis, advances, looptime, led_state, uptime, node_status,
                    fwupdate, canard_node_id, DNA, parameters, EEPROM, last,
                    ub_cast, comms, count,
                    motor_controller_, htim1_global, main_looptime >>

\* a request waits in the transmit queue or for the allocator's answer
RequestOutstanding ==
    \/ bus.reply # NoRecord
    \/ AllocationRequestsIn(tx_queue) # << >>

\* the clock moves on between two calls of cycle() while the node waits for
\* its request timer, or once it has its node ID
DnaAdvanceClock ==
    /\ ~RequestOutstanding
    /\ \/ canard_node_id # CANARD_BROADCAST_NODE_ID
       \/ Lt32(millis, DNA.send_next_node_id_allocation_request_at_ms)
    /\ AdvanceClock

InitDna ==
    /\ motor_controller_ = MotorController
    /\ htim1_global = TIM1_started
    /\ main_looptime = U32(0)
    /\ bus = BusIdle
    /\ \E mem \in {ErasedStore, SavedStore} : InitWith(U32(0), mem)
    /\ advances = 0
    /\ last = [op |-> "init", req |-> NoRecord, rsp |-> NoRecord]
    /\ ub_cast \in UbCastValues
    /\ comms = CommsZero
    /\ count = 0

\* DroneCAN::cycle, line 72: the DNA client's tick with a transport that
\* accepts the request: the handshake is the only traffic and the queue is
\* empty when the request is submitted
DnaRequestDNA ==
    /\ pc = "request_DNA"
    /\ pc' = "cycle"
    /\ \E rnd \in RandomValues : request_DNA(rnd, TRUE)
    /\ UNCHANGED << millis, advances, looptime, led_state, uptime, fwupdate,
                    ub_cast, comms, count, bus,
                    motor_controller_, htim1_global, main_looptime >>

NextDna ==
    \/ DnaAdvanceClock
    \/ Cycle1Hz
    \/ DnaProcessRx
    \/ DnaProcessTx
    \/ DnaRequestDNA

\* the main loop calls cycle() for ever, and the clock, which runs
\* whatever the main loop does, moves on between calls again and again
SpecDna ==
    /\ InitDna
    /\ [][NextDna]_vars
    /\ SF_vars(DnaAdvanceClock)
    /\ WF_vars(Cycle1Hz)
    /\ WF_vars(DnaProcessRx)
    /\ WF_vars(DnaProcessTx)
    /\ WF_vars(DnaRequestDNA)

\* the allocator has seen exactly the three requests of the handshake
ThreeStages ==
    /\ Len(bus.seen) = 3
    /\ bus.seen[1].first_part_of_unique_id
    /\ ~bus.seen[2].first_part_of_unique_id
    /\ ~bus.seen[3].first_part_of_unique_id
    /\ bus.seen[1].unique_id = SubSeq(getUniqueID, 1, 6)
    /\ bus.seen[2].unique_id = SubSeq(getUniqueID, 7, 12)
    /\ bus.seen[3].unique_id = SubSeq(getUniqueID, 13, 16)

\* C31: with an allocator that answers every request before the request
\* timer fires and no other allocation traffic, the node eventually has its
\* node ID, and when it has it the node has sent exactly three requests:
\* bytes 0-5 with the first-stage flag, then bytes 6-11 and bytes 12-15
\* without it.
C31_Handshake ==
    /\ [](canard_node_id # CANARD_BROADCAST_NODE_ID
              => (canard_node_id = ALLOCATED_NODE_ID /\ ThreeStages))
    /\ [](Len(bus.seen) <= 3)
    /\ <>(canard_node_id = ALLOCATED_NODE_ID)

\* the node has its node ID after three requests, some time after the start
C31_Witness ==
    /\ canard_node_id = ALLOCATED_NODE_ID
    /\ ThreeStages
    /\ bus.reply = NoRecord
    /\ millis # U32(0)
    /\ last.op = "DNA_Allocation"

(***************************************************************************)
(* The DNA client with a clock that starts at 0 or shortly before it wraps *)
(* around, and a record of when the last request was sent and of whether   *)
(* a stage confirmation has arrived since.                                 *)
(***************************************************************************)
\* the allocation broadcasts received: a stage confirmation, the request of
\* another allocatee, an answer meant for another node
SpacingTransfers ==
    { AllocationTransfer(ALLOCATOR_NODE_ID, UidPrefix(6), 0),
      AllocationTransfer(CANARD_BROADCAST_NODE_ID, UidPrefix(6), 0),
      AllocationTransfer(ALLOCATOR_NODE_ID, UidCorrupt(6, 6), 0) }

\* the transfer is a stage confirmation: lines 393-399 are reached
IsStageConfirmation(transfer) ==
    /\ ~DNA_Allocation_from_allocatee(transfer)
    /\ ~UniqueIdMismatch(transfer.msg)
    /\ Len(transfer.msg.unique_id) < 16

\* DroneCAN::processRx with a frame that completes an allocation broadcast
SpacingProcessRx ==
    /\ pc = "processRx"
    /\ \E transfer \in Accepted(SpacingTransfers), rnd \in RandomValues :
           /\ Dispatch(transfer, rnd, NoJunk)
           /\ bus' = [bus EXCEPT !.confirmed = @ \/ IsStageConfirmation(transfer)]
    /\ UNCHANGED << millis, advances, looptime, led_state, uptime, fwupdate,
                    ub_cast, count,
                    motor_controller_, htim1_global, main_looptime >>

\* DroneCAN::cycle, line 72: the DNA client's tick; the time of a request
\* is recorded
SpacingRequestDNA ==
    /\ pc = "request_DNA"
    /\ pc' = "cycle"
    /\ \E rnd \in RandomValues, accepted \in BOOLEAN :
           request_DNA(rnd, accepted)
    /\ IF request_DNA_idle(canard_node_id, millis, DNA)
       THEN UNCHANGED bus
       ELSE bus' = [bus EXCEPT !.requested = TRUE, !.last_request_at = millis,
                               !.confirmed = FALSE]
    /\ UNCHANGED << millis, advances, looptime, led_state, uptime, fwupdate,
                    ub_cast, comms, count,
                    motor_controller_, htim1_global, main_looptime >>

InitSpacing ==
    /\ motor_controller_ = MotorController
    /\ htim1_global = TIM1_started
    /\ main_looptime = U32(0)
    /\ bus = BusIdle
    /\ \E t \in FwClocks : InitWith(t, SavedStore)
    /\ advances = 0
    /\ last = [op |-> "init", req |-> NoRecord, rsp |-> NoRecord]
    /\ ub_cast = "saturate"
    /\ comms = CommsZero
    /\ count = 0

NextSpacing ==
    \/ AdvanceClock
    \/ Cycle1Hz
    \/ SpacingProcessRx
    \/ ProcessRxNone
    \/ ProcessTx
    \/ SpacingRequestDNA

SpecSpacing == InitSpacing /\ [][NextSpacing]_vars

\* C32: a request that follows another one with no stage confirmation in
\* between is sent at least MIN_REQUEST_PERIOD milliseconds after it, the
\* time that has passed being taken modulo 2^32.
C32_RequestSpacing ==
    [][ (/\ pc = "request_DNA"
         /\ ~request_DNA_idle(canard_node_id, millis, DNA)
         /\ bus.requested
         /\ ~bus.confirmed)
            => ~Lt32(Sub32(millis, bus.last_request_at),
                     U32(MIN_REQUEST_PERIOD_MS)) ]_vars

(***************************************************************************)
(* Properties of the parameter server's set and opcode requests.           *)
(***************************************************************************)
\* the request sets an Integer parameter it finds to an integer outside the
\* parameter's minimum and maximum
SetsOutOfRange(req) ==
    LET idx == GetSet_idx(req)
    IN  /\ idx # SIZE_MAX
        /\ req.value.union_tag = PARAM_VALUE_INTEGER
        /\ param_list[idx + 1].type = PARAM_VALUE_INTEGER
        /\ \/ Lt64(req.value.payload,
                   FloatToInt(param_list[idx + 1].min_value, ub_cast))
           \/ Lt64(FloatToInt(param_list[idx + 1].max_value, ub_cast),
                   req.value.payload)

\* C33: a GetSet set whose value lies outside the parameter's minimum and
\* maximum stores exactly the requested value, and the response carries
\* that value.
C33_NoClamping ==
    [][ (/\ Calls("GetSet")
         /\ last'.req.decodable
         /\ SetsOutOfRange(last'.req.msg))
            => LET idx == GetSet_idx(last'.req.msg)
               IN  /\ FloatToIntDefined(parameters'[idx + 1])
                   /\ FloatToInt(parameters'[idx + 1], ub_cast)
                          = last'.req.msg.value.payload
                   /\ last'.rsp.value.payload = last'.req.msg.value.payload ]_vars

\* C34: a decodable ExecuteOpcode request to a node that has a node ID gets
\* exactly one response, with ok = true, whatever the opcode; an opcode
\* other than ERASE and SAVE changes no parameter and no byte of the
\* persistent store.
C34_OpcodeAlwaysOk ==
    [][ (/\ HandlesRequest("ExecuteOpcode")
         /\ last'.req.decodable
         /\ canard_node_id # CANARD_BROADCAST_NODE_ID)
            => /\ Len(tx_queue') = Len(tx_queue) + 1
               /\ \A t \in NewTransfers :
                      /\ t.transfer_type = "Response"
                      /\ t.data_type = "param.ExecuteOpcode"
                      /\ t.destination_node_id = last'.req.source_node_id
                      /\ t.msg.ok
               /\ last'.req.msg.opcode \notin {OPCODE_ERASE, OPCODE_SAVE}
                      => UNCHANGED << parameters, EEPROM >> ]_vars

\* a request with another opcode has been answered with ok by a node whose
\* parameters differ from what the persistent store holds
C34_Witness ==
    /\ last.op = "ExecuteOpcode"
    /\ last.req.msg.opcode = OPCODE_OTHER
    /\ canard_node_id # CANARD_BROADCAST_NODE_ID
    /\ Len(tx_queue) = 1
    /\ tx_queue[1].data_type = "param.ExecuteOpcode"
    /\ tx_queue[1].msg.ok
    /\ parameters # read_parameter_memory(EEPROM)

(***************************************************************************)
(* The frame pump.  The CAN controller holds the inbound frames that have  *)
(* arrived (bus.rx) and reports for every frame handed to it whether it    *)
(* took it; bus.sent is what the last processTx handed to it.  A queued    *)
(* transfer stands for its frames.                                         *)
(***************************************************************************)
\* how many inbound frames the CAN controller holds at most
MaxRx == 2

\* the transfers whose frames arrive in specification SpecPump
PumpTransfers == { GetNodeInfoTransfer, LogMessageTransfer }

\* a frame arrives at the CAN controller
PumpArrive ==
    /\ Len(bus.rx) < MaxRx
    /\ \E transfer \in Accepted(PumpTransfers) :
           bus' = [bus EXCEPT !.rx = Append(@, transfer)]
    /\ UNCHANGED << millis, advances, pc, looptime, led_state, uptime, node_status,
                    fwupdate, canard_node_id, DNA, parameters, EEPROM, tx_queue,
                    last, ub_cast, comms, count,
                    motor_controller_, htim1_global, main_looptime >>

\* lines 705-707: the number of frames one processRx takes from the CAN
\* controller
processRx_taken(rx) ==
    IF rx # << >> THEN 1 ELSE 0

\* DroneCAN::processRx: if a frame is available it is received and fed to
\* the transport, which calls the dispatcher
PumpProcessRx ==
    /\ pc = "processRx"
    /\ LET n == processRx_taken(bus.rx)
       IN  /\ bus' = [bus EXCEPT !.rx = SubSeq(@, n + 1, Len(@))]
           /\ IF n = 0
              THEN /\ last' = [op |-> "processRx", req |-> NoRecord, rsp |-> NoRecord]
                   /\ pc' = "processTx"
                   /\ UNCHANGED << canard_node_id, DNA, parameters, EEPROM,
                                   node_status, tx_queue, comms >>
              ELSE Dispatch(bus.rx[n], 0, NoJunk)
    /\ UNCHANGED << millis, advances, looptime, led_state, uptime, fwupdate,
                    ub_cast, count,
                    motor_controller_, htim1_global, main_looptime >>

\* a pump that keeps the frames the CAN controller did not take
processTx_left_keeps_failed(queue, oks) ==
    LET failed == { k \in 1..Len(queue) : ~oks[k] }
    IN  IF failed = {} THEN << >>
        ELSE SubSeq(queue, CHOOSE k \in failed : \A j \in failed : k <= j, Len(queue))

\* lines 695-699: the queue after the loop, oks being the results of CANSend
processTx_left(queue, oks) ==
    << >>

\* lines 695-699: what the loop hands to CANSend, with the results
processTx_sent(queue, oks) ==
    [k \in 1..Len(queue) |-> [frame |-> queue[k], ok |-> oks[k]]]

\* DroneCAN::processTx
PumpProcessTx ==
    /\ pc = "processTx"
    /\ pc' = "request_DNA"
    /\ \E oks \in [1..Len(tx_queue) -> BOOLEAN] :
           /\ tx_queue' = processTx_left(tx_queue, oks)
           /\ bus' = [bus EXCEPT !.sent = processTx_sent(tx_queue, oks)]
    /\ UNCHANGED << millis, advances, looptime, led_state, uptime, node_status,
                    fwupdate, canard_node_id, DNA, parameters, EEPROM, last,
                    ub_cast, comms, count,
                    motor_controller_, htim1_global, main_looptime >>

NextPump ==
    \/ AdvanceClock
    \/ MainLoopBattery
    \/ Cycle1Hz
    \/ PumpArrive
    \/ PumpProcessRx
    \/ PumpProcessTx
    \/ RequestDNA

SpecPump == InitBoot /\ [][NextPump]_vars

\* C35: the RX step of a tick takes at most one inbound frame; the TX step
\* hands every frame queued at that moment to the bus once, in queue
\* order, and leaves the queue empty, also when the send of a frame fails.
C35_FramePump ==
    [][ /\ (pc = "processRx" /\ pc' = "processTx")
            => /\ Len(bus'.rx) >= Len(bus.rx) - 1
               /\ Len(bus'.rx) <= Len(bus.rx)
               /\ bus'.rx = SubSeq(bus.rx, Len(bus.rx) - Len(bus'.rx) + 1, Len(bus.rx))
        /\ (pc = "processTx" /\ pc' = "request_DNA")
            => /\ tx_queue' = << >>
               /\ Len(bus'.sent) = Len(tx_queue)
               /\ \A k \in 1..Len(tx_queue) : bus'.sent[k].frame = tx_queue[k] ]_vars

\* a processTx has handed a heartbeat and a node-info response to the bus,
\* the first send failed, and the queue is empty; a frame still waits in
\* the CAN controller
C35_Witness ==
    /\ pc = "request_DNA"
    /\ tx_queue = << >>
    /\ Len(bus.sent) = 2
    /\ bus.sent[1].frame.data_type = "NodeStatus"
    /\ ~bus.sent[1].ok
    /\ bus.sent[2].frame.data_type = "GetNodeInfo"
    /\ Len(bus.rx) = 1

\* the step restarts the node right after the handler of a decoded
\* ExecuteOpcode request with the opcode ERASE
RestartsAfterErase ==
    /\ last.op = "ExecuteOpcode"
    /\ last.req.decodable
    /\ last.req.msg.opcode = OPCODE_ERASE
    /\ last'.op = "restart"

\* C39: an ERASE leaves the persistent store as it is, and a restart that
\* follows it with no SAVE in between reloads every parameter from its slot,
\* which holds the value it held before the ERASE.
C39_EraseNotDurable ==
    [][ /\ (/\ HandlesRequest("ExecuteOpcode")
            /\ last'.req.decodable
            /\ last'.req.msg.opcode = OPCODE_ERASE) => EEPROM' = EEPROM
        /\ RestartsAfterErase
               => \A i \in 1..NumParams :
                      parameters'[i] = EEPROM_get(EEPROM, SlotAddr(i - 1)) ]_vars

\* the node has restarted after an ERASE and a parameter has a value that is
\* not its minimum
C39_Witness ==
    /\ last.op = "restart"
    /\ last.req.after_op = "ExecuteOpcode"
    /\ last.req.after_req.decodable
    /\ last.req.after_req.msg.opcode = OPCODE_ERASE
    /\ \E i \in 1..NumParams : parameters[i] # param_list[i].min_value

(***************************************************************************)
(* The record handed to the bootloader.                                    *)
(***************************************************************************)
\* the record names the server, the remote path and the local node ID of the
\* request, under the magic
HoldsRequest(c, transfer, local_node_id) ==
    /\ c.magic = APP_BOOTLOADER_COMMS_MAGIC
    /\ c.server_node_id = (IF transfer.msg.source_node_id = 0
                           THEN transfer.source_node_id
                           ELSE transfer.msg.source_node_id)
    /\ SubSeq(c.path, 1, Len(transfer.msg.path)) = transfer.msg.path
    /\ c.my_node_id = local_node_id

\* C38: a begin-update request that decodes leaves the record tagged with the
\* magic and holding the server node ID, the remote path and the local node
\* ID; one that does not decode leaves the record as it was, queues no
\* response and does not go on to the restart.
C38_HandoffValid ==
    [][ Calls("BeginFirmwareUpdate")
            => IF last'.req.decodable
               THEN HoldsRequest(comms', last'.req, canard_node_id)
               ELSE /\ comms' = comms
                    /\ tx_queue' = tx_queue
                    /\ pc' = "processTx" ]_vars

(***************************************************************************)
(* The motor controller between the ESC commands and the main loop.        *)
(***************************************************************************)
\* the commands of an ESC RawCommand, a null pointer among them
RawCommands ==
    { NoRecord }
    \cup { [data |-> d] : d \in { << >>, << 8191 >>, << -32768, 0, 7 >> } }

MotorIndexes == {1, NUM_MOTORS}

PwmValues == {900, 1700}

\* the main loop calls MotorController::update()
MotorUpdate ==
    /\ LET checked == checkSafetyTimeout(motor_controller_, millis)
           tim     == updateMotorOutputs(checked, htim1_global)
       IN  /\ htim1_global' = tim
           /\ motor_controller_' =
                  [checked EXCEPT
                     !.last_pwm_debug = DebugStamp(@, millis, 5000),
                     !.last_debug_time_ =
                         DebugStamp(@, millis, MOTOR_DEBUG_INTERVAL_MS)]
           /\ last' = [op |-> "update",
                       req |-> [motor_controller_ |-> motor_controller_,
                                millis |-> millis],
                       rsp |-> [htim1_global |-> tim]]
    /\ UNCHANGED << millis, advances, pc, looptime, led_state, uptime,
                    node_status, fwupdate, canard_node_id, DNA, parameters,
                    EEPROM, tx_queue, ub_cast, comms, count, bus,
                    main_looptime >>

\* DroneCAN_Handler::handleESCCommand or the test mode calls
\* MotorController::setMotorCommands
MotorSetCommands ==
    /\ \E raw_commands \in RawCommands :
           /\ motor_controller_' =
                  setMotorCommands(motor_controller_, raw_commands, millis)
           /\ last' = [op |-> "setMotorCommands",
                       req |-> [raw_commands |-> raw_commands, millis |-> millis],
                       rsp |-> NoRecord]
    /\ UNCHANGED << millis, advances, pc, looptime, led_state, uptime,
                    node_status, fwupdate, canard_node_id, DNA, parameters,
                    EEPROM, tx_queue, ub_cast, comms, count, bus,
                    htim1_global, main_looptime >>

\* the test mode calls MotorController::setMotorPWM
MotorSetPWM ==
    /\ \E motor_index \in MotorIndexes, pwm_value \in PwmValues :
           /\ motor_controller_' =
                  setMotorPWM(motor_controller_, motor_index, pwm_value, millis)
           /\ last' = [op |-> "setMotorPWM",
                       req |-> [motor_index |-> motor_index,
                                pwm_value |-> pwm_value, millis |-> millis],
                       rsp |-> NoRecord]
    /\ UNCHANGED << millis, advances, pc, looptime, led_state, uptime,
                    node_status, fwupdate, canard_node_id, DNA, parameters,
                    EEPROM, tx_queue, ub_cast, comms, count, bus,
                    htim1_global, main_looptime >>

\* a call of the public member function MotorController::arm() (no call
\* of it is in the repository but the one inside setMotorCommands)
MotorArm ==
    /\ motor_controller_' = arm(motor_controller_, millis)
    /\ last' = [op |-> "arm", req |-> [millis |-> millis], rsp |-> NoRecord]
    /\ UNCHANGED << millis, advances, pc, looptime, led_state, uptime,
                    node_status, fwupdate, canard_node_id, DNA, parameters,
                    EEPROM, tx_queue, ub_cast, comms, count, bus,
                    htim1_global, main_looptime >>

\* a call of the public member function MotorController::disarm() (no call
\* of it is in the repository but those of initialize() and of
\* checkSafetyTimeout)
MotorDisarm ==
    /\ motor_controller_' = disarm(motor_controller_)
    /\ last' = [op |-> "disarm", req |-> NoRecord, rsp |-> NoRecord]
    /\ UNCHANGED << millis, advances, pc, looptime, led_state, uptime,
                    node_status, fwupdate, canard_node_id, DNA, parameters,
                    EEPROM, tx_queue, ub_cast, comms, count, bus,
                    htim1_global, main_looptime >>

InitMotor ==
    /\ motor_controller_ = MotorController
    /\ htim1_global = TIM1_started
    /\ main_looptime = U32(0)
    /\ bus = BusIdle
    /\ \E t \in FwClocks : InitWith(t, SavedStore)
    /\ advances = 0
    /\ last = [op |-> "init", req |-> NoRecord, rsp |-> NoRecord]
    /\ ub_cast = "saturate"
    /\ comms = CommsZero
    /\ count = 0

NextMotor ==
    \/ AdvanceClock
    \/ MotorUpdate
    \/ MotorSetCommands
    \/ MotorSetPWM

SpecMotor == InitMotor /\ [][NextMotor]_vars

\* the public interface of MotorController: the calls of the program and,
\* beside them, direct calls of arm() and disarm(), which the class offers
\* and the program does not make
NextMotorApi ==
    \/ NextMotor
    \/ MotorArm
    \/ MotorDisarm

SpecMotorApi == InitMotor /\ [][NextMotorApi]_vars

\* every compare value of TIM1 that belongs to a motor is PWM_NEUTRAL
OutputsNeutral(tim) == \A i \in 1..NUM_MOTORS : tim[i] = PWM_NEUTRAL

\* C40: an update() that leaves the controller disarmed writes
\* PWM_NEUTRAL to every output; an update() of an armed controller whose last
\* command is more than ESC_TIMEOUT_MS old disarms it and resets every stored
\* PWM value to PWM_NEUTRAL; and a disarmed controller is armed again by an
\* ESC command (setMotorCommands) only.
C40_MotorFailsafe ==
    [][ /\ (Calls("update") /\ ~motor_controller_'.motors_armed_)
               => OutputsNeutral(htim1_global')
        /\ (/\ Calls("update")
            /\ motor_controller_.motors_armed_
            /\ Lt32(U32(ESC_TIMEOUT_MS),
                    Sub32(millis, motor_controller_.last_command_time_)))
               => /\ ~motor_controller_'.motors_armed_
                  /\ \A i \in 1..NUM_MOTORS :
                         motor_controller_'.motor_pwm_values_[i] = PWM_NEUTRAL
        /\ (~motor_controller_.motors_armed_ /\ motor_controller_'.motors_armed_)
               => /\ Calls("setMotorCommands")
                  /\ last'.req.raw_commands # NoRecord ]_vars

\* update() has disarmed, after the timeout, a controller that was armed
\* with a PWM value other than neutral on an output
C40_Witness ==
    /\ last.op = "update"
    /\ last.req.motor_controller_.motors_armed_
    /\ ~OutputsNeutral(updateMotorOutputs(last.req.motor_controller_,
                                          htim1_global))
    /\ ~motor_controller_.motors_armed_
    /\ OutputsNeutral(htim1_global)

====
